---- MODULE Spec2Model ----
(***************************************************************************)
(* Model of the tiled-raster storage engine of                             *)
(* ogr/ogrsf_frmts/gpkg/gdalgeopackagerasterband.cpp:                      *)
(* GDALGPKGMBTilesLikePseudoDataset (tile cache, codec branch logic,       *)
(* primary tile table, partial_tiles overflow table, transaction batching) *)
(* and GDALGPKGMBTilesLikeRasterBand (IReadBlock / IWriteBlock).           *)
(*                                                                         *)
(* Every C++ method is an operator over a state record s; it returns the   *)
(* new state and the CPLErr / pointer the method returns.  The actions at  *)
(* the end of the module wrap the entry points the host calls.             *)
(***************************************************************************)
EXTENDS Integers, Sequences, FiniteSets, TLC

VARIABLES
    scenario,               \* the dataset and the caps of the behaviour
    nBands,                 \* IGetRasterCount()
    m_nShiftXPixelsMod,     \* sub-tile pixel shift of the block grid, x
    m_nShiftYPixelsMod,     \* sub-tile pixel shift of the block grid, y
    nRasterXSize,           \* raster width in pixels
    nRasterYSize,           \* raster height in pixels
    m_asCachedTilesDesc,    \* the 4 cache slots
    m_pabyCachedTiles,      \* the cache memory, as band blocks
    m_nTileInsertionCount,  \* upserts in the open transaction, -1 = poisoned
    m_bInWriteTile,         \* re-entrancy flag of WriteTile()
    m_nAge,                 \* next age handed to a partial tile
    m_hTempDB,              \* TRUE once the partial_tiles database exists
    tiles,                  \* primary tile table: <<zoom,row,col>> -> blob
    partial_tiles,          \* overflow table: id -> row
    nLastId,                \* AUTOINCREMENT high-water mark of partial_tiles
    gridded_tile_ancillary, \* gpkg_2d_gridded_tile_ancillary: set of rows
    nLastTileId,            \* largest id the primary tile table has used
    bInTransaction,         \* host: a transaction is open on the main DB
    nCommits,               \* host: number of successful commits
    nDisableDirtyBlockFlush,\* host: GDALRasterBlock dirty-flush disable depth
    hostDirty,              \* host block cache: dirty blocks -> data version
    written,                \* history: block -> data version last written
    nWrites,                \* history: number of blocks the user has written
    nReads,                 \* history: number of blocks the host has loaded
    bFlushed,               \* history: FlushTiles() succeeded since last write
    overviewDS,             \* the overview dataset (m_poParentDS = the
                            \* dataset above): its own cache and m_hTempDB
    reading,                \* the IReadBlock() call that is running, if any:
                            \* where it stands and its local variables
    nFaults,                \* history: operations run with an injected fault
    last                    \* history: what the last operation did

vars == << scenario, nBands, m_nShiftXPixelsMod, m_nShiftYPixelsMod, nRasterXSize,
           nRasterYSize, m_asCachedTilesDesc, m_pabyCachedTiles,
           m_nTileInsertionCount, m_bInWriteTile, m_nAge, m_hTempDB, tiles,
           partial_tiles, nLastId, gridded_tile_ancillary, nLastTileId,
           bInTransaction, nCommits,
           nDisableDirtyBlockFlush, hostDirty, written, nWrites, nReads,
           bFlushed, nFaults, last, overviewDS, reading >>

(***************************************************************************)
(* Bounds of the model.                                                    *)
(***************************************************************************)
\* nBlockXSize = nBlockYSize: tiles of BlockSize x BlockSize pixels
BlockSize == 2
\* operations that may run with an injected fault in one behaviour
MaxFaults == 1
\* cap of the number of blocks the user writes in one behaviour, in the
\* datasets where a block can be written again
MaxWrites == 3
\* cap of the number of blocks the host loads in one behaviour
MaxReads == 2
\* cap of the number of blocks that are dirty in the host cache at once
MaxHostDirty == 2
\* number of tiles written in the transaction batching scenario
MaxBatchTiles == 3000

(***************************************************************************)
(* Program constants.                                                      *)
(***************************************************************************)
\* WriteTileInternal(): "else if (poMainDS->m_nTileInsertionCount == 1000)"
TilesPerTransaction == 1000
\* m_nZoomLevel of the dataset, and of its overview dataset
m_nZoomLevel == 1
m_nOverviewZoomLevel == 0
\* m_nShiftXTiles / m_nShiftYTiles: tile-grid origin offset, in tiles
m_nShiftXTiles == 0
m_nShiftYTiles == 0
\* m_eDT == GDT_Byte: 4 band blocks per cached tile, m_nDTSize == 1
nTileBandsInCache == 4

nBlockXSize == BlockSize
nBlockYSize == BlockSize
NPix == nBlockXSize * nBlockYSize
PixIdx == 0 .. (NPix - 1)

Min(a, b) == IF a < b THEN a ELSE b
\* the one element of a singleton: Only({ e(r) : r \in {Call(...)} }) is e
\* applied to the result of one execution of the call
Only(S) == CHOOSE e \in S : TRUE
DivRoundUp(a, b) == (a + b - 1) \div b

\* FillBuffer(): no no-data value on a Byte band => memset(0)
FillValue == 0
EmptyBand == [i \in PixIdx |-> FillValue]

(***************************************************************************)
(* Geometry.                                                               *)
(***************************************************************************)
bShifted(s) == s.sx # 0 \/ s.sy # 0
nXBlocks(s) == DivRoundUp(s.rx, nBlockXSize)
nYBlocks(s) == DivRoundUp(s.ry, nBlockYSize)
\* tile matrix just large enough to cover the raster
m_nTileMatrixWidth(s) ==
    m_nShiftXTiles + nXBlocks(s) + (IF s.sx # 0 THEN 1 ELSE 0)
m_nTileMatrixHeight(s) ==
    m_nShiftYTiles + nYBlocks(s) + (IF s.sy # 0 THEN 1 ELSE 0)
\* GeoPackage row convention: tile_row is counted from the top
GetRowFromIntoTopConvention(s, nRow) == nRow
TileKey(s, nRow, nCol) ==
    << s.zoom, GetRowFromIntoTopConvention(s, nRow), nCol >>

(***************************************************************************)
(* Data a block is written with.                                           *)
(***************************************************************************)
\* version 0 is all zero, version 2 all 255; the other versions have a
\* distinct value per band, block and pixel
PixCode(b, bx, by, i) == 10 + 120 * b + NPix * (3 * by + bx) + i
BlockData(v, b, bx, by) ==
    [i \in PixIdx |->
        IF v = 0 THEN 0 ELSE IF v = 2 THEN 255 ELSE PixCode(b, bx, by, i)]

(***************************************************************************)
(* Cache memory: m_pabyCachedTiles is 4 tiles of nTileBandsInCache band    *)
(* blocks; band block k starts at k * nBandBlockSize.                      *)
(***************************************************************************)
BandIdx == 0 .. (4 * nTileBandsInCache - 1)

\* a copy that takes the whole band block, whatever the rectangle
CopyWholeBand(dst, src, x0, y0, w, h) == src

\* memcpy of a rectangle of one band block onto another
CopyRect(dst, src, x0, y0, w, h) ==
    [i \in PixIdx |->
        LET x == i % nBlockXSize
            y == i \div nBlockXSize
        IN  IF x >= x0 /\ x < x0 + w /\ y >= y0 /\ y < y0 + h
            THEN src[i] ELSE dst[i]]

\* a FillEmptyTile() that leaves the buffer as it is
KeepBuffer(s, mem, base) == mem

\* FillEmptyTile(pabyData): nBands band blocks from pabyData on are filled
FillEmptyTile(s, mem, base) ==
    [k \in BandIdx |->
        IF k >= base /\ k < base + s.nb THEN EmptyBand ELSE mem[k]]

\* FillEmptyTileSingleBand(pabyData)
FillEmptyTileSingleBand(mem, k) == [mem EXCEPT ![k] = EmptyBand]

CE_None == "CE_None"
CE_Failure == "CE_Failure"
NullPtr == -1

(***************************************************************************)
(* Fault injection and the per-operation event log.                        *)
(* s.f is the step that fails the first time it is executed in the running *)
(* operation ("none": nothing fails).  s.ev records what the operation did.*)
(***************************************************************************)
FaultKinds ==
    { "commit", "upsert", "encode", "delete", "ovfCreate", "ovfSelect",
      "ovfWrite", "ovfMarkDead", "ovfDelete", "ovfFlushSelect",
      "readPrepare", "readBusy", "decode" }

NoEvents ==
    [ failed      |-> FALSE,   \* a store / transaction / codec step failed
      primary     |-> {},      \* tile keys upserted into the primary table
      primWrite   |-> FALSE,   \* some write statement ran on the primary DB
      ovfWrite    |-> FALSE,   \* some write statement ran on partial_tiles
      noTxnWrite  |-> FALSE,   \* a write ran while no transaction was open
      upsertNoTxn |-> FALSE,   \* a tile upsert ran while none was open
      sparse      |-> {},      \* tiles deleted as empty / transparent
      completed   |-> {},      \* tiles whose last quadrant bit was written
      flushedEmpty |-> {},     \* tiles flushed fully transparent / all zero
      evicted     |-> {},      \* tiles a partial flush has flushed
      evictThird  |-> {},      \* tiles a partial flush left without record
      aged        |-> << >>,   \* ages given to the records stored, in order
      reuse       |-> {},      \* left-to-right reuse paths of IReadBlock():
                               \* << rowMin, colMin, row and column of slot
                               \* 1, buffer index of slot 0 >>
      retargeted  |-> {},      \* slot 0 given another tile: the tile it had
                               \* with a dirty band, the tile it got, what
                               \* WriteTile() returned, and whether a dirty
                               \* flag was still set
      conflict    |-> FALSE,   \* a statement on partial_tiles has failed on
                               \* UNIQUE (zoom_level, tile_column, tile_row)
      rekeyed     |-> {},      \* dead records taken for a tile: their key
                               \* and the key they were given
      flagged     |-> {},      \* quadrant writes: tile, flags before, bits
      flagsUnion  |-> TRUE,    \* ... each left the record, if still live,
                               \* with the union of the two
      evictRuns   |-> {},      \* partial flushes: live records before,
                               \* of them with a dirty block, flushed,
                               \* and whether the flushed are the oldest
                               \* and without row, or with a changed record
      wtOnDirty   |-> FALSE,   \* WriteTile() was called with slot 0 dirty
      wtLeftDirty |-> FALSE,   \* ... one of them returned with a dirty flag
      wtFailed    |-> FALSE,   \* a WriteTile() call returned CE_Failure
      wtOK        |-> FALSE,   \* a WriteTile() call returned CE_None
      wtClean     |-> {},      \* results of WriteTile() on a clean slot 0
      wtCleanSame |-> TRUE,    \* ... each of which changed nothing
      nested      |-> "none",  \* result of a re-entrant WriteTile() call
      nestedSame  |-> TRUE,    \* ... which left the state as it found it
      partialFlush |-> {},     \* tiles stored with some band not dirty
      partialKept |-> TRUE,    \* ... each keeping its bands that were not
      seeded      |-> {},      \* << row, column, band, the primary tile has
                               \* content outside of the rectangle >> of the
                               \* first quadrant writes of a band of a tile
      seedPrimary |-> TRUE,    \* ... each stored with the pixels of the
                               \* primary tile outside of the rectangle
      seedFill    |-> TRUE,    \* ... each stored with no-data outside of it
      forced      |-> {},      \* tiles stored from a record by a flush
      forcedKept  |-> TRUE,    \* ... each made of the quadrants of the
                               \* record and, for the others, of the
                               \* primary tile as it was
      forcedSparse |-> TRUE,   \* ... or transparent and left without row
      readMissing |-> {},      \* tiles read that had no row in the primary table
      readCorrupt |-> {},      \* tiles read whose blob could not be decoded
      readPending |-> {},      \* tiles read from a live record or a dirty slot
      readSQL     |-> {},      \* SELECT steps of a tile read that failed
      assertion   |-> FALSE ]  \* a CPLAssert() condition was false

Fails(s, kind) == s.f = kind
Fired(s) == [s EXCEPT !.f = "none", !.ev.failed = TRUE]

(***************************************************************************)
(* Tile blobs.  m_eTF == GPKG_TF_PNG: the PNG driver stores the bands it   *)
(* is given, losslessly: a blob is the band count and the band blocks.     *)
(***************************************************************************)
Blob(nTileBands, px) == [nb |-> nTileBands, px |-> px]

\* memcpy(dst band block, src band block) inside the cache memory
CopyBand(mem, kDst, kSrc) == [mem EXCEPT ![kDst] = mem[kSrc]]
SetBand(mem, k, v) == [mem EXCEPT ![k] = [i \in PixIdx |-> v]]

\* ReadTile(osMemFileName, pabyTileData, ...), Byte, no colour table:
\* RasterIO of the tile's bands, then the band-count reconciliation.
Reconcile(nb, nTileBandCount, mem, base) ==
    IF nb = 2
    THEN IF nTileBandCount = 1 \/ nTileBandCount = 3
         THEN SetBand(mem, base + 1, 255)
         ELSE IF nTileBandCount = 4
              THEN CopyBand(mem, base + 1, base + 3)
              ELSE mem
    ELSE IF nTileBandCount = 2
    THEN CopyBand(CopyBand(CopyBand(mem, base + 3, base + 1),
                           base + 1, base), base + 2, base)
    ELSE IF nTileBandCount = 1
    THEN LET m2 == CopyBand(CopyBand(mem, base + 1, base), base + 2, base)
         IN  IF nb = 4 THEN SetBand(m2, base + 3, 255) ELSE m2
    ELSE IF nTileBandCount = 3 /\ nb = 4
    THEN SetBand(mem, base + 3, 255)
    ELSE mem

DecodeTile(s, blob, base) ==
    IF Fails(s, "decode")
    THEN [s |-> [Fired(s) EXCEPT !.mem = FillEmptyTile(s, s.mem, base)],
          err |-> CE_Failure]
    ELSE LET raw == [k \in BandIdx |->
                        IF k >= base /\ k < base + blob.nb
                        THEN blob.px[k - base] ELSE s.mem[k]]
         IN  [s |-> [s EXCEPT !.mem = Reconcile(s.nb, blob.nb, raw, base)],
              err |-> CE_None]

(***************************************************************************)
(* partial_tiles rows.                                                     *)
(***************************************************************************)
NoBlob == << >>
LiveRecords(s) == {r \in s.pt : r.zoom_level = s.zoom}
LiveRecordOf(s, nRow, nCol) ==
    {r \in s.pt : r.zoom_level = s.zoom /\ r.tile_row = nRow
                  /\ r.tile_column = nCol}
BandFlags(iBand) == {4 * (iBand - 1) + q : q \in 0 .. 3}
HasBandFlags(flags, iBand) == flags \cap BandFlags(iBand) # {}

\* the event log with tile (nRow, nCol) added to one of its sets
LogRead(s, field, nRow, nCol) ==
    [s EXCEPT !.ev[field] = @ \cup {<< nRow, nCol >>}]

\* ReadTile(nRow, nCol, pabyData, ...): the primary table has no row
ReadMissingTile(s, nRow, nCol, base) ==
    IF s.tempDB /\ bShifted(s)
    THEN IF Fails(s, "ovfSelect")
         THEN [s |-> [Fired(s) EXCEPT !.mem = FillEmptyTile(s, s.mem, base),
                                      !.ev.readSQL = @ \cup {"ovfSelect"}],
               p |-> base]
         ELSE IF LiveRecordOf(s, nRow, nCol) # {}
         THEN LET r == CHOOSE r \in LiveRecordOf(s, nRow, nCol) : TRUE
                  m2 == [k \in BandIdx |->
                           IF k >= base /\ k < base + s.nb
                           THEN IF HasBandFlags(r.partial_flag, k - base + 1)
                                THEN r.tile_data_band[k - base + 1]
                                ELSE EmptyBand
                           ELSE s.mem[k]]
              IN  [s |-> [LogRead(s, "readPending", nRow, nCol)
                            EXCEPT !.mem = m2],
                   p |-> base]
         ELSE [s |-> [s EXCEPT !.mem = FillEmptyTile(s, s.mem, base)],
               p |-> base]
    ELSE [s |-> [s EXCEPT !.mem = FillEmptyTile(s, s.mem, base)], p |-> base]

\* ReadTile(nRow, nCol, pabyData, pbIsLossyFormat)
ReadTileInto(s, nRow, nCol, base) ==
    IF nRow < 0 \/ nCol < 0 \/ nRow >= m_nTileMatrixHeight(s)
       \/ nCol >= m_nTileMatrixWidth(s)
    THEN [s |-> [s EXCEPT !.mem = FillEmptyTile(s, s.mem, base)], p |-> base]
    ELSE IF Fails(s, "readPrepare")
    THEN [s |-> [Fired(s) EXCEPT !.ev.readSQL = @ \cup {"readPrepare"}],
          p |-> NullPtr]
    ELSE IF Fails(s, "readBusy")
    THEN [s |-> [Fired(s) EXCEPT !.mem = FillEmptyTile(s, s.mem, base),
                                 !.ev.readSQL = @ \cup {"readBusy"}],
          p |-> base]
    ELSE IF TileKey(s, nRow, nCol) \in DOMAIN s.tiles
    THEN Only({ [s |-> IF d.err # CE_None
                       THEN LogRead(d.s, "readCorrupt", nRow, nCol)
                       ELSE d.s,
                 p |-> base]
                : d \in {DecodeTile(s, s.tiles[TileKey(s, nRow, nCol)],
                                    base)} })
    ELSE Only({ ReadMissingTile(s0, nRow, nCol, base)
                : s0 \in {LogRead(s, "readMissing", nRow, nCol)} })

(***************************************************************************)
(* The tile cache.                                                         *)
(***************************************************************************)
BandSlots == 0 .. 3
NoDirty == [b \in BandSlots |-> FALSE]
AllDirty == [b \in BandSlots |-> TRUE]
EmptySlot ==
    [nRow |-> -1, nCol |-> -1, nIdxWithinTileData |-> -1,
     abBandDirty |-> NoDirty]
\* start of tile buffer k in m_pabyCachedTiles, in band blocks
TileBuffer(k) == k * nTileBandsInCache

SlotsMatching(s, nRow, nCol) ==
    {i \in 0 .. 3 : s.desc[i].nRow = nRow /\ s.desc[i].nCol = nCol}
MinOf(S) == CHOOSE x \in S : \A y \in S : x <= y

\* buffer index given to slot i when it has none
NewIdxOfSlot(s, i) ==
    IF i = 0 THEN (IF s.desc[1].nIdxWithinTileData = 0 THEN 1 ELSE 0)
    ELSE IF i = 1 THEN (IF s.desc[0].nIdxWithinTileData = 0 THEN 1 ELSE 0)
    ELSE IF i = 2 THEN (IF s.desc[3].nIdxWithinTileData = 2 THEN 3 ELSE 2)
    ELSE (IF s.desc[2].nIdxWithinTileData = 2 THEN 3 ELSE 2)

\* buffers the aligned ReadTile(nRow, nCol) decodes into
AlignedDestBuffer == 2
AlignedTempBuffer == 3

\* ReadTile(nRow, nCol)
ReadTile(s, nRow, nCol) ==
    IF bShifted(s)
    THEN IF SlotsMatching(s, nRow, nCol) = {}
         THEN [s |-> [s EXCEPT !.ev.assertion = TRUE], p |-> NullPtr]
         ELSE LET i == MinOf(SlotsMatching(s, nRow, nCol))
              IN  IF s.desc[i].nIdxWithinTileData >= 0
                  THEN [s |-> s,
                        p |-> TileBuffer(s.desc[i].nIdxWithinTileData)]
                  ELSE LET idx == NewIdxOfSlot(s, i)
                           s1 == [s EXCEPT
                                    !.desc[i].nIdxWithinTileData = idx]
                       IN  ReadTileInto(s1, nRow, nCol, TileBuffer(idx))
    ELSE LET pabyDest == TileBuffer(AlignedDestBuffer)
             pabyTemp == TileBuffer(AlignedTempBuffer)
             bAllNonDirty ==
                 \A i \in 0 .. (s.nb - 1) : ~s.desc[0].abBandDirty[i]
         IN  IF bAllNonDirty
             THEN ReadTileInto(s, nRow, nCol, pabyDest)
             ELSE Only({
                    IF r.p # NullPtr
                    THEN [s |-> [r.s EXCEPT !.mem =
                                   [k \in BandIdx |->
                                      IF k >= pabyDest /\ k < pabyDest + s.nb
                                         /\ ~s.desc[0].abBandDirty[k - pabyDest]
                                      THEN r.s.mem[pabyTemp + (k - pabyDest)]
                                      ELSE r.s.mem[k]]],
                          p |-> pabyDest]
                    ELSE [s |-> r.s, p |-> pabyDest]
                    : r \in {ReadTileInto(LogRead(s, "readPending", nRow,
                                                  nCol),
                                          nRow, nCol, pabyTemp)} })

(***************************************************************************)
(* Primary tile table and the transaction batcher.                         *)
(***************************************************************************)
\* capability of the PNG driver the dataset was opened with
m_bPNGSupports2Bands == TRUE

PutTile(tl, k, blob) == (k :> blob) @@ tl
DropTile(tl, k) == [x \in (DOMAIN tl) \ {k} |-> tl[x]]

PrimaryWritten(s) ==
    [s EXCEPT !.ev.primWrite = TRUE,
              !.ev.noTxnWrite = @ \/ ~s.txn]
OverflowWritten(s) ==
    [s EXCEPT !.ev.ovfWrite = TRUE,
              !.ev.noTxnWrite = @ \/ ~s.txn]

\* DeleteTile(nRow, nCol): [s, ok]
DeleteTile(s, nRow, nCol) ==
    IF Fails(s, "delete")
    THEN [s |-> Fired(s), ok |-> FALSE]
    ELSE [s |-> [PrimaryWritten(s) EXCEPT
                    !.tiles = DropTile(s.tiles, TileKey(s, nRow, nCol)),
                    !.ev.sparse = @ \cup {<<nRow, nCol>>}],
          ok |-> TRUE]

\* a batcher that commits and recreates the transaction at every tile
BatchEveryTile(s) ==
    IF s.cnt = 0
    THEN [s |-> [s EXCEPT !.txn = TRUE, !.cnt = 1], err |-> CE_None]
    ELSE [s |-> [s EXCEPT !.commits = @ + 1, !.txn = TRUE, !.cnt = 1],
          err |-> CE_None]

\* WriteTileInternal(): "Create or commit and recreate transaction"
BatchTransaction(s) ==
    IF s.cnt = 0
    THEN [s |-> [s EXCEPT !.txn = TRUE, !.cnt = 1], err |-> CE_None]
    ELSE IF s.cnt = TilesPerTransaction
    THEN IF Fails(s, "commit")
         THEN [s |-> [Fired(s) EXCEPT !.cnt = -1], err |-> CE_Failure]
         ELSE [s |-> [s EXCEPT !.commits = @ + 1, !.txn = TRUE, !.cnt = 1],
               err |-> CE_None]
    ELSE [s |-> [s EXCEPT !.cnt = @ + 1], err |-> CE_None]

\* WriteTileInternal(): INSERT OR REPLACE of the encoded tile
UpsertTile(s, nRow, nCol, blob) ==
    IF Fails(s, "upsert")
    THEN [s |-> Fired(s), err |-> CE_Failure]
    ELSE [s |-> [PrimaryWritten(s) EXCEPT
                    !.tiles = PutTile(s.tiles, TileKey(s, nRow, nCol), blob),
                    !.ev.primary = @ \cup {<<nRow, nCol>>},
                    !.ev.upsertNoTxn = @ \/ ~s.txn],
          err |-> CE_None]

\* number of bands of the encoded tile (m_eTF == GPKG_TF_PNG, no colour
\* table): the PNG driver supports 1 and 4 bands, and 2 if configured
TileBandCount(nb, bPartialTile, bAllOpaque) ==
    IF bPartialTile /\ nb = 1 /\ m_bPNGSupports2Bands THEN 2
    ELSE IF bPartialTile THEN 4
    ELSE IF nb = 2
    THEN IF bAllOpaque
         THEN (IF m_bPNGSupports2Bands THEN 1 ELSE 3)
         ELSE (IF ~m_bPNGSupports2Bands THEN 4 ELSE 2)
    ELSE IF nb = 4 /\ bAllOpaque THEN 3
    ELSE nb

\* source band block of band i of the encoded tile
SrcBandOfTileBand(nb, bPartialTile, nTileBands, i) ==
    IF nb = 1 /\ nTileBands = 3 THEN 0
    ELSE IF nb = 1 /\ bPartialTile /\ nTileBands = 4
    THEN (IF i < 3 THEN 0 ELSE 3)
    ELSE IF nb = 2 /\ nTileBands >= 3
    THEN (IF i < 3 THEN 0 ELSE 1)
    ELSE i

\* the alpha band synthesised for a partial tile: 255 in the validity area
ValidityMask(iXOff, iYOff, iXCount, iYCount) ==
    [i \in PixIdx |->
        LET x == i % nBlockXSize
            y == i \div nBlockXSize
        IN  IF x >= iXOff /\ x < iXOff + iXCount
               /\ y >= iYOff /\ y < iYOff + iYCount
            THEN 255 ELSE 0]

\* the part of the state a call can change, without the event log
Core(s) == [s EXCEPT !.ev = NoEvents, !.f = "none", !.re = "none"]

(***************************************************************************)
(* WriteTile() / WriteTileInternal().                                      *)
(***************************************************************************)
RECURSIVE WriteTile(_)

\* a WriteTile() entered from the host while s.re names the running step
ReenterAt(s, point) ==
    IF s.re # point
    THEN s
    ELSE Only({ [r.s EXCEPT !.ev.nested = r.err,
                            !.ev.nestedSame =
                                (Core(r.s) = Core([s EXCEPT !.re = "none"]))]
                : r \in {WriteTile([s EXCEPT !.re = "none"])} })

\* WriteTileInternal(), !bAllDirty: fetch the non-dirty bands of the
\* persisted tile through tile buffer 1
MergePersistedBands(s, nRow, nCol) ==
    LET s1 == [s EXCEPT !.desc =
                  [i \in 0 .. 3 |->
                      IF i = 0 THEN s.desc[0]
                      ELSE [s.desc[i] EXCEPT !.nRow = -1, !.nCol = -1,
                                             !.nIdxWithinTileData = -1]]]
        pabyTemp == TileBuffer(1)
    IN  Only({ [r.s EXCEPT !.mem =
                  [k \in BandIdx |->
                      IF k < s.nb /\ ~s.desc[0].abBandDirty[k]
                      THEN r.s.mem[pabyTemp + k] ELSE r.s.mem[k]]]
               : r \in {ReadTileInto(ReenterAt(s1, "read"), nRow, nCol,
                                     pabyTemp)} })

\* WriteTileInternal(), from the driver selection to the end
EncodeAndStore(s, nRow, nCol, bPartialTile, bAllOpaque, mask) ==
    LET nTileBands == TileBandCount(s.nb, bPartialTile, bAllOpaque)
        m1 == IF bPartialTile /\ (nTileBands = 2 \/ nTileBands = 4)
              THEN [s.mem EXCEPT ![nTileBands - 1] = mask]
              ELSE s.mem
        blob(s1) == Blob(nTileBands,
                         [i \in 0 .. (nTileBands - 1) |->
                            s1.mem[SrcBandOfTileBand(s.nb, bPartialTile,
                                                     nTileBands, i)]])
    IN  Only({ IF Fails(s1, "encode")
               THEN [s |-> Fired(s1), err |-> CE_Failure]
               ELSE Only({ IF t.err # CE_None
                           THEN t
                           ELSE UpsertTile(t.s, nRow, nCol, blob(s1))
                           : t \in {BatchTransaction(s1)} })
               : s1 \in {ReenterAt([s EXCEPT !.mem = m1], "encode")} })

\* WriteTileInternal() after the non-dirty bands have been fetched: s1
StoreCachedTile(s, s1, nRow, nCol, bAllDirty) ==
    LET nXOff == (nCol - m_nShiftXTiles) * nBlockXSize - s.sx
        nYOff == (nRow - m_nShiftYTiles) * nBlockYSize - s.sy
        nAlphaBand == IF s.nb = 2 THEN 2 ELSE IF s.nb = 4 THEN 4 ELSE 0
        bPartialTile ==
            nAlphaBand = 0
            /\ (nXOff < 0 \/ nXOff > s.rx - nBlockXSize
                \/ nYOff < 0 \/ nYOff > s.ry - nBlockYSize)
        iXOff == IF nXOff < 0 THEN -nXOff ELSE 0
        iYOff == IF nYOff < 0 THEN -nYOff ELSE 0
        iXCount == nBlockXSize + (IF nXOff < 0 THEN nXOff ELSE 0)
                   - (IF nXOff > s.rx - nBlockXSize
                      THEN nXOff + nBlockXSize - s.rx ELSE 0)
        iYCount == nBlockYSize + (IF nYOff < 0 THEN nYOff ELSE 0)
                   - (IF nYOff > s.ry - nBlockYSize
                      THEN nYOff + nBlockYSize - s.ry ELSE 0)
        alpha == s1.mem[nAlphaBand - 1]
        bUniformAlpha == \A i \in PixIdx : alpha[i] = alpha[0]
        bAllEmpty == \A k \in 0 .. (s.nb - 1) : \A i \in PixIdx :
                        s1.mem[k][i] = 0
        bEmptyTile == IF nAlphaBand # 0 THEN bUniformAlpha /\ alpha[0] = 0
                      ELSE bAllEmpty
        s2 == [s1 EXCEPT !.desc[0] = EmptySlot,
                         !.ev.flushedEmpty =
                             IF bEmptyTile THEN @ \cup {<< nRow, nCol >>}
                             ELSE @]
    IN  IF nXOff >= s.rx \/ nYOff >= s.ry
        THEN [s |-> s1, err |-> CE_None]
        ELSE IF bAllDirty /\ nAlphaBand # 0 /\ bUniformAlpha /\ alpha[0] = 0
        THEN [s |-> DeleteTile(s2, nRow, nCol).s, err |-> CE_None]
        ELSE IF bAllDirty /\ nAlphaBand = 0 /\ bAllEmpty
        THEN [s |-> DeleteTile(s2, nRow, nCol).s, err |-> CE_None]
        ELSE EncodeAndStore(s2, nRow, nCol, bPartialTile,
                            IF bAllDirty /\ nAlphaBand # 0
                            THEN bUniformAlpha /\ alpha[0] = 255
                            ELSE TRUE,
                            ValidityMask(iXOff, iYOff, iXCount, iYCount))

\* a WriteTileInternal() that stores slot 0 whatever its state
WriteTileInternalAnyway(s) ==
    StoreCachedTile(s, MergePersistedBands(s, s.desc[0].nRow,
                                           s.desc[0].nCol),
                    s.desc[0].nRow, s.desc[0].nCol,
                    \A i \in 0 .. (s.nb - 1) : s.desc[0].abBandDirty[i])

\* the bands a reader of the primary table tl finds in tile (nRow, nCol):
\* the decoded row, no-data if there is none
PersistedBands(s, tl, nRow, nCol) ==
    IF TileKey(s, nRow, nCol) \notin DOMAIN tl
    THEN [k \in 0 .. (s.nb - 1) |-> EmptyBand]
    ELSE LET blob == tl[TileKey(s, nRow, nCol)]
             raw == [k \in BandIdx |->
                        IF k < blob.nb THEN blob.px[k] ELSE EmptyBand]
             mem == Reconcile(s.nb, blob.nb, raw, 0)
         IN  [k \in 0 .. (s.nb - 1) |-> mem[k]]

\* what a WriteTileInternal() of a tile with a band that is not dirty left
\* in the primary table
LogPartialFlush(s0, r, nRow, nCol) ==
    LET before == PersistedBands(s0, s0.tiles, nRow, nCol)
        after == PersistedBands(s0, r.s.tiles, nRow, nCol)
        bKept == \A k \in 0 .. (s0.nb - 1) :
                    after[k] = IF s0.desc[0].abBandDirty[k]
                               THEN s0.mem[k] ELSE before[k]
    IN  [r EXCEPT !.s.ev.partialFlush = @ \cup {<< nRow, nCol >>},
                  !.s.ev.partialKept = @ /\ bKept]

WriteTileInternal(s) ==
    IF ~(s.desc[0].nRow >= 0 /\ s.desc[0].nCol >= 0
         /\ s.desc[0].nIdxWithinTileData = 0)
    THEN [s |-> s, err |-> CE_None]
    ELSE
    LET nRow == s.desc[0].nRow
        nCol == s.desc[0].nCol
        bAllDirty == \A i \in 0 .. (s.nb - 1) : s.desc[0].abBandDirty[i]
        bAllNonDirty == \A i \in 0 .. (s.nb - 1) : ~s.desc[0].abBandDirty[i]
    IN  IF bAllNonDirty
        THEN [s |-> s, err |-> CE_None]
        ELSE Only({ IF bAllDirty \/ r.err # CE_None
                    THEN r
                    ELSE LogPartialFlush(s, r, nRow, nCol)
                    : r \in {StoreCachedTile(s, IF bAllDirty THEN s
                                                ELSE MergePersistedBands(
                                                         s, nRow, nCol),
                                             nRow, nCol, bAllDirty)} })

\* what a WriteTile() call that found slot 0 dirty left behind
LogWriteTile(s0, r) ==
    LET bWasDirty == \E i \in BandSlots : s0.desc[0].abBandDirty[i]
        bIsDirty == \E i \in BandSlots : r.s.desc[0].abBandDirty[i]
        bClean == \A i \in 0 .. (s0.nb - 1) : ~s0.desc[0].abBandDirty[i]
    IN  [s |-> [r.s EXCEPT
                  !.ev.wtClean = IF bClean THEN @ \cup {r.err} ELSE @,
                  !.ev.wtCleanSame = @ /\ (bClean => Core(r.s) = Core(s0)),
                  !.ev.wtOnDirty = @ \/ bWasDirty,
                  !.ev.wtLeftDirty = @ \/ (bWasDirty /\ bIsDirty),
                  !.ev.wtFailed = @ \/ (r.err = CE_Failure),
                  !.ev.wtOK = @ \/ (r.err = CE_None)],
         err |-> r.err]

\* a WriteTile() without the check of m_bInWriteTile
WriteTileUnguarded(s) ==
    IF s.cnt < 0
    THEN LogWriteTile(s, [s |-> s, err |-> CE_Failure])
    ELSE Only({ LogWriteTile(s,
                    [s |-> [r.s EXCEPT !.inWT = FALSE, !.noFlush = @ - 1],
                     err |-> r.err])
                : r \in {WriteTileInternal(
                            [s EXCEPT !.noFlush = @ + 1, !.inWT = TRUE])} })

WriteTile(s) ==
    IF s.cnt < 0
    THEN LogWriteTile(s, [s |-> s, err |-> CE_Failure])
    ELSE IF s.inWT
    THEN LogWriteTile(s, [s |-> s, err |-> CE_Failure])
    ELSE Only({ LogWriteTile(s,
                    [s |-> [r.s EXCEPT !.inWT = FALSE, !.noFlush = @ - 1],
                     err |-> r.err])
                : r \in {WriteTileInternal(
                            [s EXCEPT !.noFlush = @ + 1, !.inWT = TRUE])} })

(***************************************************************************)
(* FlushRemainingShiftedTiles().                                           *)
(***************************************************************************)
DeadZoom(s) == -1 - s.zoom
FullFlags(nb) == 0 .. (4 * nb - 1)

\* UNIQUE (zoom_level, tile_column, tile_row) of partial_tiles
UniqueOK(pt) ==
    \A r1 \in pt : \A r2 \in pt :
        (r1.zoom_level = r2.zoom_level /\ r1.tile_row = r2.tile_row
         /\ r1.tile_column = r2.tile_column) => r1.id = r2.id

\* UPDATE partial_tiles SET zoom_level = -1 - zoom, partial_flag = 0,
\* age = -1 WHERE <ids>; the statement fails as a whole on a conflict
MarkDead(s, ids) ==
    LET pt2 == {IF r.id \in ids
                THEN [r EXCEPT !.zoom_level = DeadZoom(s), !.partial_flag = {},
                               !.age = -1]
                ELSE r : r \in s.pt}
    IN  IF ids = {} THEN s
        ELSE IF Fails(s, "ovfMarkDead") THEN Fired(s)
        ELSE IF ~UniqueOK(pt2)
        THEN [s EXCEPT !.ev.failed = TRUE, !.ev.conflict = TRUE]
        ELSE [OverflowWritten(s) EXCEPT !.pt = pt2]

\* quadrant bits of quadrant (iXQuadrant, iYQuadrant)
QuadrantFlag(iXQuadrant, iYQuadrant, iXQuadrantMax, iYQuadrantMax) ==
    (IF iXQuadrant = 0 /\ iYQuadrant = 0 THEN {0} ELSE {})
    \cup (IF iXQuadrant = iXQuadrantMax /\ iYQuadrant = 0 THEN {1} ELSE {})
    \cup (IF iXQuadrant = 0 /\ iYQuadrant = iYQuadrantMax THEN {2} ELSE {})
    \cup (IF iXQuadrant = iXQuadrantMax /\ iYQuadrant = iYQuadrantMax
          THEN {3} ELSE {})
ShiftFlags(Q, nBand) == {4 * (nBand - 1) + q : q \in Q}

\* bands of tile buffer 0 after the quadrants missing from the record have
\* been copied from the decoded primary tile in tile buffer 1
\* a flush that takes nothing from the primary tile
KeepRecordOnly(s, mem, nPartialFlags) ==
    mem

MergeMissingQuadrants(s, mem, nPartialFlags) ==
    LET iXQuadrantMax == IF s.sx # 0 THEN 1 ELSE 0
        iYQuadrantMax == IF s.sy # 0 THEN 1 ELSE 0
        pabyTemp == TileBuffer(1)
        bMissing(k, i) ==
            LET x == i % nBlockXSize
                y == i \div nBlockXSize
                iXQuadrant == IF s.sx # 0 /\ x >= s.sx THEN 1 ELSE 0
                iYQuadrant == IF s.sy # 0 /\ y >= s.sy THEN 1 ELSE 0
            IN  ShiftFlags(QuadrantFlag(iXQuadrant, iYQuadrant,
                                        iXQuadrantMax, iYQuadrantMax), k + 1)
                    \cap nPartialFlags = {}
    IN  [k \in BandIdx |->
            IF k < s.nb
            THEN [i \in PixIdx |->
                    IF bMissing(k, i) THEN mem[pabyTemp + k][i] ELSE mem[k][i]]
            ELSE mem[k]]

\* a host block overlapping tile (nRow, nCol) is dirty
FoundDirtyBlock(s, nRow, nCol) ==
    \E iX \in 0 .. (IF s.sx # 0 THEN 1 ELSE 0) :
    \E iY \in 0 .. (IF s.sy # 0 THEN 1 ELSE 0) :
    \E iBand \in 1 .. s.nb :
        LET bx == nCol - m_nShiftXTiles + iX
            by == nRow - m_nShiftYTiles + iY
        IN  bx >= 0 /\ bx < nXBlocks(s) /\ by >= 0 /\ by < nYBlocks(s)
            /\ <<iBand, bx, by>> \in DOMAIN s.host

\* what the flush of record r left in the primary table, compared with the
\* record and with the primary table before
LogForcedFlush(s0, r, w) ==
    LET before == PersistedBands(s0, s0.tiles, r.tile_row, r.tile_column)
        after == PersistedBands(s0, w.s.tiles, r.tile_row, r.tile_column)
        bSet(k, i) ==
            LET iXQuadrant == IF s0.sx # 0 /\ i % nBlockXSize >= s0.sx
                              THEN 1 ELSE 0
                iYQuadrant == IF s0.sy # 0 /\ i \div nBlockXSize >= s0.sy
                              THEN 1 ELSE 0
            IN  ShiftFlags(QuadrantFlag(iXQuadrant, iYQuadrant,
                                        IF s0.sx # 0 THEN 1 ELSE 0,
                                        IF s0.sy # 0 THEN 1 ELSE 0), k + 1)
                    \cap r.partial_flag # {}
        bKept == \A k \in 0 .. (s0.nb - 1) : \A i \in PixIdx :
                    after[k][i] = IF bSet(k, i)
                                  THEN r.tile_data_band[k + 1][i]
                                  ELSE before[k][i]
        expected(k, i) == IF bSet(k, i) THEN r.tile_data_band[k + 1][i]
                          ELSE before[k][i]
        bTransparent == s0.nb = 2
                        /\ \A i \in PixIdx : expected(1, i) = 0
        bNoRow == TileKey(s0, r.tile_row, r.tile_column)
                      \notin DOMAIN w.s.tiles
        bFromPrimary == \E k \in 0 .. (s0.nb - 1) : \E i \in PixIdx :
                            ~bSet(k, i) /\ before[k][i] # FillValue
    IN  IF w.err # CE_None
        THEN w
        ELSE [w EXCEPT
               !.s.ev.forced = @ \cup {<< r.tile_row, r.tile_column,
                                          bFromPrimary >>},
               !.s.ev.forcedKept = @ /\ bKept,
               !.s.ev.forcedSparse =
                   @ /\ (bKept \/ (bTransparent /\ bNoRow))]

\* one iteration of the do-while loop body on a fetched row, after the
\* dirty block and the count checks
FlushOneRecord(s, r, bPartialFlush) ==
    LET m1 == [k \in BandIdx |->
                 IF k < s.nb
                 THEN IF HasBandFlags(r.partial_flag, k + 1)
                      THEN r.tile_data_band[k + 1] ELSE EmptyBand
                 ELSE s.mem[k]]
        s1 == [s EXCEPT !.mem = m1]
        key == TileKey(s, r.tile_row, r.tile_column)
        s2 == IF r.partial_flag = FullFlags(s.nb) THEN s1
              ELSE IF Fails(s1, "readPrepare") THEN Fired(s1)
              ELSE IF key \in DOMAIN s1.tiles
              THEN Only({ [d EXCEPT !.mem =
                             MergeMissingQuadrants(d, d.mem, r.partial_flag)]
                          : d \in {DecodeTile(s1, s1.tiles[key],
                                              TileBuffer(1)).s} })
              ELSE s1
        s3 == [s2 EXCEPT !.desc[0] =
                 [nRow |-> r.tile_row, nCol |-> r.tile_column,
                  nIdxWithinTileData |-> 0, abBandDirty |-> AllDirty]]
        evicted(x) == [x EXCEPT !.ev.evicted =
                          @ \cup {<< r.tile_row, r.tile_column >>}]
    IN  Only({
          IF w.err = CE_None /\ bPartialFlush
          THEN IF Fails(w.s, "ovfDelete")
               THEN [s |-> evicted(Fired(w.s)), err |-> CE_None]
               ELSE [s |-> [evicted(OverflowWritten(w.s)) EXCEPT !.pt =
                              {x \in w.s.pt :
                                 ~(x.zoom_level = s.zoom
                                   /\ x.tile_row = r.tile_row
                                   /\ x.tile_column = r.tile_column)}],
                     err |-> CE_None]
          ELSE w
          : w \in {LogForcedFlush(s, r, WriteTile(s3))} })

\* rows of a SELECT on partial_tiles in the order they are stepped through:
\* ORDER BY age for a partial flush, rowid order otherwise
RECURSIVE RowsInOrder(_, _)
RowsInOrder(rows, bByAge) ==
    IF rows = {} THEN << >>
    ELSE LET r == CHOOSE r \in rows : \A x \in rows :
                     IF bByAge /\ r.age # x.age
                     THEN r.age < x.age ELSE r.id <= x.id
         IN  << r >> \o RowsInOrder(rows \ {r}, bByAge)

\* the do ... while (eErr == CE_None) loop of FlushRemainingShiftedTiles()
RECURSIVE FlushLoop(_, _, _, _, _)
FlushLoop(s, rows, nCountFlushedTiles, nPartialActiveTiles, bPartialFlush) ==
    IF rows = << >>
    THEN [s |-> s, err |-> CE_None]
    ELSE LET r == Head(rows)
         IN  IF bPartialFlush /\ FoundDirtyBlock(s, r.tile_row, r.tile_column)
             THEN FlushLoop(s, Tail(rows), nCountFlushedTiles,
                            nPartialActiveTiles, bPartialFlush)
             ELSE IF bPartialFlush
                     /\ nCountFlushedTiles + 1 >= nPartialActiveTiles \div 2
             THEN [s |-> s, err |-> CE_None]
             ELSE Only({ IF w.err # CE_None
                         THEN w
                         ELSE FlushLoop(w.s, Tail(rows),
                                        nCountFlushedTiles + 1,
                                        nPartialActiveTiles, bPartialFlush)
                         : w \in {FlushOneRecord(s, r, bPartialFlush)} })

\* a flush that marks the remaining live records dead after a partial flush
\* as well
FlushAndMarkAllDead(s, bPartialFlush) ==
    IF ~s.tempDB
    THEN [s |-> s, err |-> CE_None]
    ELSE Only({ [s |-> MarkDead(w.s, {r.id : r \in LiveRecords(w.s)}),
                 err |-> w.err]
                : w \in {FlushLoop(s, RowsInOrder(LiveRecords(s),
                                                  bPartialFlush), 0,
                                   Cardinality(LiveRecords(s)),
                                   bPartialFlush)} })

FlushRemainingShiftedTiles(s, bPartialFlush) ==
    IF ~s.tempDB
    THEN [s |-> s, err |-> CE_None]
    ELSE LET s1 == [s EXCEPT !.desc =
                      [i \in 0 .. 3 |->
                          [s.desc[i] EXCEPT !.nRow = -1, !.nCol = -1,
                                            !.nIdxWithinTileData = -1]]]
             rows == RowsInOrder(LiveRecords(s1), bPartialFlush)
             bGotPartialTiles == rows # << >>
         IN  IF Fails(s1, "ovfFlushSelect")
             THEN [s |-> Fired(s1), err |-> CE_Failure]
             ELSE Only({ IF bGotPartialTiles /\ ~bPartialFlush
                         THEN [s |-> MarkDead(w.s,
                                        {r.id : r \in LiveRecords(w.s)}),
                               err |-> w.err]
                         ELSE w
                         : w \in {FlushLoop(s1, rows, 0,
                                            Cardinality(LiveRecords(s1)),
                                            bPartialFlush)} })

\* DoPartialFlushOfPartialTilesIfNecessary(); s.evict: the space checks of
\* the running operation are due and find bTryFreeing
\* the tiles with a live record in s0 that a partial flush has left, in s1,
\* neither without live record and with a row in the primary table, nor with
\* their record as it was
ThirdState(s0, s1) ==
    {<< r.tile_row, r.tile_column >> : r \in
        {r \in LiveRecords(s0) :
            ~( \/ /\ LiveRecordOf(s1, r.tile_row, r.tile_column) = {}
                  /\ TileKey(s1, r.tile_row, r.tile_column) \in DOMAIN s1.tiles
               \/ r \in s1.pt )}}

\* what a partial flush of the live records of s0 did, s1 being the state
\* it left
EvictRun(s0, s1) ==
    LET live == LiveRecords(s0)
        dirty == {r \in live : FoundDirtyBlock(s0, r.tile_row, r.tile_column)}
        kept == live \cap s1.pt
        flushed == live \ kept
    IN  << Cardinality(live), Cardinality(dirty), Cardinality(flushed),
           \A f \in flushed : \A k \in kept : f.age < k.age >>

DoPartialFlushOfPartialTilesIfNecessary(s) ==
    IF ~s.evict
    THEN [s |-> s, err |-> CE_None]
    ELSE Only({ IF w.err # CE_None
                THEN [s |-> w.s, err |-> CE_Failure]
                ELSE [s |-> IF \E r \in w.s.pt : r.zoom_level < 0
                            THEN [OverflowWritten(w.s) EXCEPT !.pt =
                                     {r \in w.s.pt : r.zoom_level >= 0}]
                            ELSE w.s,
                      err |-> CE_None]
                : w \in {Only({ [s |-> [x.s EXCEPT !.ev.evictThird =
                                           @ \cup ThirdState(s, x.s),
                                         !.ev.evictRuns =
                                           IF x.err = CE_None
                                           THEN @ \cup {EvictRun(s, x.s)}
                                           ELSE @],
                                 err |-> x.err]
                               : x \in {FlushRemainingShiftedTiles(s, TRUE)}
                             })} })

\* FlushTiles()
FlushTiles(s) ==
    IF s.cnt < 0
    THEN [s |-> s, err |-> CE_Failure]
    ELSE Only({ IF w.s.cnt > 0
                THEN IF Fails(w.s, "commit")
                     THEN [s |-> [Fired(w.s) EXCEPT !.cnt = -1],
                           err |-> CE_Failure]
                     ELSE [s |-> [w.s EXCEPT !.cnt = 0, !.commits = @ + 1,
                                             !.txn = FALSE],
                           err |-> w.err]
                ELSE w
                : w \in {IF bShifted(s)
                         THEN FlushRemainingShiftedTiles(s, FALSE)
                         ELSE WriteTile(s)} })

(***************************************************************************)
(* WriteShiftedTile().                                                     *)
(***************************************************************************)
\* a rectangle taken to cover the four quadrants, whatever its extent
EveryQuadrantFlag(nDstXOffset, nDstYOffset, nDstXSize, nDstYSize) ==
    {0, 1, 2, 3}

\* iQuadrantFlag of the rectangle a block covers in a tile
DstQuadrantFlag(nDstXOffset, nDstYOffset, nDstXSize, nDstYSize) ==
    LET bRight == nDstXOffset # 0 \/ nDstXOffset + nDstXSize = nBlockXSize
        bBottom == nDstYOffset # 0 \/ nDstYOffset + nDstYSize = nBlockYSize
    IN  (IF nDstXOffset = 0 /\ nDstYOffset = 0 THEN {0} ELSE {})
        \cup (IF bRight /\ nDstYOffset = 0 THEN {1} ELSE {})
        \cup (IF nDstXOffset = 0 /\ bBottom THEN {2} ELSE {})
        \cup (IF bRight /\ bBottom THEN {3} ELSE {})

\* no record is ever taken for reuse
NeverRecycle(s, nRow, nCol) == 0

\* nExistingId of a record that can be recycled: the dead record of the same
\* tile first, then any record with partial_flag = 0 (0: none)
RecyclableId(s, nRow, nCol) ==
    LET same == {r \in s.pt : r.partial_flag = {} /\ r.zoom_level = DeadZoom(s)
                              /\ r.tile_row = nRow /\ r.tile_column = nCol}
        any == {r \in s.pt : r.partial_flag = {}}
    IN  IF same # {} THEN MinOf({r.id : r \in same})
        ELSE IF any # {} THEN MinOf({r.id : r \in any})
        ELSE 0

\* WriteShiftedTile(), "if (l_nFlags == nFullFlags)" branch
WriteCompletedTile(s, nRow, nCol, nBand, existing) ==
    LET pabyTemp == TileBuffer(1)
        m1 == [k \in BandIdx |->
                 IF k >= s.nb THEN s.mem[k]
                 ELSE IF k = nBand - 1 THEN s.mem[pabyTemp + k]
                 ELSE IF existing # {}
                 THEN (CHOOSE r \in existing : TRUE).tile_data_band[k + 1]
                 ELSE s.mem[k]]
        s1 == [s EXCEPT !.mem = m1,
                        !.ev.completed = @ \cup {<< nRow, nCol >>},
                        !.desc[0] = [nRow |-> nRow, nCol |-> nCol,
                                     nIdxWithinTileData |-> 0,
                                     abBandDirty |-> AllDirty]]
    IN  Only({ Only({ [s |-> d.s,
                       err |-> IF d.err # CE_None THEN CE_None ELSE w.err]
                      : d \in {DoPartialFlushOfPartialTilesIfNecessary(w.s)} })
               : w \in {WriteTile(MarkDead(s1, {r.id : r \in existing}))} })

\* an age counter that stands still
SameAge(nAge) == nAge

\* m_nAge++ (of m_poParentDS if there is one)
NextAge(nAge) == nAge + 1

\* WriteShiftedTile(), from "if (nExistingId == 0)" to the end
StorePartialTile(s, nRow, nCol, nBand, l_nFlags, existing) ==
    LET pabyTemp == TileBuffer(1)
        nExistingId == IF existing # {}
                       THEN (CHOOSE r \in existing : TRUE).id
                       ELSE RecyclableId(s, nRow, nCol)
        nAge == s.age
        band == s.mem[pabyTemp + nBand - 1]
        pt2 == IF nExistingId = 0
               THEN s.pt \cup
                    {[id |-> s.lastId + 1, zoom_level |-> s.zoom,
                      tile_row |-> nRow, tile_column |-> nCol,
                      partial_flag |-> l_nFlags, age |-> nAge,
                      tile_data_band |->
                         [b \in 1 .. 4 |-> IF b = nBand THEN band ELSE NoBlob]]}
               ELSE {IF r.id = nExistingId
                     THEN [r EXCEPT !.zoom_level = s.zoom,
                                    !.tile_row = nRow, !.tile_column = nCol,
                                    !.tile_data_band[nBand] = band,
                                    !.partial_flag = l_nFlags, !.age = nAge]
                     ELSE r : r \in s.pt}
        s1 == [s EXCEPT !.age = NextAge(@)]
        w == IF Fails(s1, "ovfWrite")
             THEN [s |-> Fired(s1), err |-> CE_Failure]
             ELSE IF ~UniqueOK(pt2)
             THEN [s |-> [s1 EXCEPT !.ev.failed = TRUE,
                                    !.ev.conflict = TRUE],
                   err |-> CE_Failure]
             ELSE [s |-> [OverflowWritten(s1) EXCEPT
                            !.pt = pt2,
                            !.ev.aged = Append(@, nAge),
                            !.ev.rekeyed =
                                @ \cup {<< r.zoom_level, r.tile_row,
                                           r.tile_column, s.zoom, nRow, nCol >>
                                        : r \in {x \in s.pt :
                                                   existing = {}
                                                   /\ x.id = nExistingId}},
                            !.lastId = IF nExistingId = 0 THEN @ + 1 ELSE @],
                   err |-> CE_None]
    IN  Only({ [s |-> d.s, err |-> IF d.err # CE_None THEN CE_None ELSE w.err]
               : d \in {DoPartialFlushOfPartialTilesIfNecessary(w.s)} })

\* a seed that takes the band of the persisted primary tile when the record
\* has no data for the band
SeedBandFromPrimary(s, nRow, nCol, nBand, existing) ==
    IF existing # {}
       /\ HasBandFlags((CHOOSE r \in existing : TRUE).partial_flag, nBand)
    THEN (CHOOSE r \in existing : TRUE).tile_data_band[nBand]
    ELSE PersistedBands(s, s.tiles, nRow, nCol)[nBand - 1]

\* WriteShiftedTile(): content of band nBand of pabyTemp before the updated
\* rectangle is copied into it
SeedBand(s, nRow, nCol, nBand, existing) ==
    IF existing # {}
       /\ HasBandFlags((CHOOSE r \in existing : TRUE).partial_flag, nBand)
    THEN (CHOOSE r \in existing : TRUE).tile_data_band[nBand]
    ELSE EmptyBand

\* what the first quadrant write of band nBand of tile (nRow, nCol) stored
\* in the record, outside of the rectangle written
LogSeed(s0, r, nRow, nCol, nBand, band, nDstXOffset, nDstYOffset, nDstXSize, nDstYSize) ==
    LET outside == {i \in PixIdx :
                      ~(i % nBlockXSize >= nDstXOffset
                        /\ i % nBlockXSize < nDstXOffset + nDstXSize
                        /\ i \div nBlockXSize >= nDstYOffset
                        /\ i \div nBlockXSize < nDstYOffset + nDstYSize)}
        primary == PersistedBands(s0, s0.tiles, nRow, nCol)[nBand - 1]
    IN  [r EXCEPT
           !.s.ev.seeded = @ \cup {<< nRow, nCol, nBand,
                                     \E i \in outside :
                                        primary[i] # FillValue >>},
           !.s.ev.seedPrimary = @ /\ \A i \in outside : band[i] = primary[i],
           !.s.ev.seedFill = @ /\ \A i \in outside : band[i] = FillValue]

\* flags that forget what the record had
NewFlagsOnly(l_nFlags, nOldFlags) == l_nFlags

\* l_nFlags |= nOldFlags
MergeFlags(l_nFlags, nOldFlags) == l_nFlags \cup nOldFlags

\* what a quadrant write of bits l_nFlags left in the record of tile
\* (nRow, nCol), whose flags were nOldFlags
LogFlags(r, nRow, nCol, nOldFlags, l_nFlags) ==
    IF r.err # CE_None
    THEN r
    ELSE [r EXCEPT
           !.s.ev.flagged = @ \cup {<< nRow, nCol, nOldFlags, l_nFlags >>},
           !.s.ev.flagsUnion =
               @ /\ \A x \in LiveRecordOf(r.s, nRow, nCol) :
                       x.partial_flag = nOldFlags \cup l_nFlags]

WriteShiftedTile(s, nRow, nCol, nBand, nDstXOffset, nDstYOffset, nDstXSize, nDstYSize) ==
    IF ~s.tempDB /\ (~s.bParent \/ ~s.parentDB) /\ Fails(s, "ovfCreate")
    THEN [s |-> Fired(s), err |-> CE_Failure]
    ELSE
    LET iQuadrantFlag == DstQuadrantFlag(nDstXOffset, nDstYOffset,
                                         nDstXSize, nDstYSize)
        nFullFlags == FullFlags(s.nb)
        s0 == [s EXCEPT !.tempDB = TRUE,
                        !.parentDB = s.bParent,
                        !.desc = [i \in 0 .. 3 |->
                            IF i = 0 THEN s.desc[0]
                            ELSE [s.desc[i] EXCEPT !.nRow = -1, !.nCol = -1,
                                      !.nIdxWithinTileData = -1]]]
        existing == LiveRecordOf(s0, nRow, nCol)
        nOldFlags == IF existing # {}
                     THEN (CHOOSE r \in existing : TRUE).partial_flag ELSE {}
        pabyTemp == TileBuffer(1)
        old == SeedBand(s0, nRow, nCol, nBand, existing)
        s1 == [s0 EXCEPT !.mem[pabyTemp + nBand - 1] =
                  CopyRect(old, s0.mem[nBand - 1], nDstXOffset, nDstYOffset,
                           nDstXSize, nDstYSize)]
        l_nFlags == MergeFlags(ShiftFlags(iQuadrantFlag, nBand), nOldFlags)
    IN  IF Fails(s0, "ovfSelect")
        THEN [s |-> Fired(s0), err |-> CE_Failure]
        ELSE IF l_nFlags = nFullFlags
        THEN WriteCompletedTile(s1, nRow, nCol, nBand, existing)
        ELSE Only({ IF r.err = CE_None /\ ~HasBandFlags(nOldFlags, nBand)
                    THEN LogSeed(s0, r, nRow, nCol, nBand,
                                 s1.mem[pabyTemp + nBand - 1], nDstXOffset,
                                 nDstYOffset, nDstXSize, nDstYSize)
                    ELSE r
                    : r \in {LogFlags(StorePartialTile(s1, nRow, nCol, nBand,
                                                       l_nFlags, existing),
                                      nRow, nCol, nOldFlags,
                                      ShiftFlags(iQuadrantFlag, nBand))} })

(***************************************************************************)
(* GDALGPKGMBTilesLikeRasterBand::IWriteBlock().                           *)
(***************************************************************************)
\* GDALCopyWords of a w x h rectangle at (xs, ys) of src to (xd, yd) of dst
CopyShifted(dst, src, xd, yd, xs, ys, w, h) ==
    [i \in PixIdx |->
        LET x == i % nBlockXSize
            y == i \div nBlockXSize
        IN  IF x >= xd /\ x < xd + w /\ y >= yd /\ y < yd + h
            THEN src[(y - yd + ys) * nBlockXSize + (x - xd + xs)]
            ELSE dst[i]]

\* FillBuffer() of a band block outside of its validity area
ZeroOutside(band, nXEndValidity, nYEndValidity) ==
    [i \in PixIdx |->
        IF i % nBlockXSize >= nXEndValidity
           \/ i \div nBlockXSize >= nYEndValidity
        THEN FillValue ELSE band[i]]

\* the band loop of IWriteBlock() on an aligned tile, from band iBand on:
\* [s, bAllDirty]
RECURSIVE CompositeBands(_, _, _, _, _, _, _)
CompositeBands(s, iBand, nBand, nBlockXOff, nBlockYOff, pData, bAllDirty) ==
    IF iBand > s.nb
    THEN [s |-> s, bAllDirty |-> bAllDirty]
    ELSE
    LET blk == << iBand, nBlockXOff, nBlockYOff >>
        bOwn == iBand = nBand
        bInSlot == ~bOwn /\ s.desc[0].abBandDirty[iBand - 1]
        bHostDirty == ~bOwn /\ ~bInSlot /\ blk \in DOMAIN s.host
        pabySrc == IF bOwn THEN pData
                   ELSE BlockData(s.host[blk], iBand - 1, nBlockXOff,
                                  nBlockYOff)
        nXEndValidity == Min(s.rx - nBlockXOff * nBlockXSize, nBlockXSize)
        nYEndValidity == Min(s.ry - nBlockYOff * nBlockYSize, nBlockYSize)
        bEdge == nBlockXOff * nBlockXSize >= s.rx - nBlockXSize
                 \/ nBlockYOff * nBlockYSize >= s.ry - nBlockYSize
        band == IF bEdge
                THEN ZeroOutside(pabySrc, nXEndValidity, nYEndValidity)
                ELSE pabySrc
        s1 == [s EXCEPT
                 !.host = IF bHostDirty
                          THEN [x \in (DOMAIN s.host) \ {blk} |-> s.host[x]]
                          ELSE @,
                 !.desc[0].abBandDirty[iBand - 1] = TRUE,
                 !.mem[iBand - 1] = band]
    IN  IF bInSlot
        THEN CompositeBands(s, iBand + 1, nBand, nBlockXOff, nBlockYOff,
                            pData, bAllDirty)
        ELSE IF ~bOwn /\ ~bHostDirty
        THEN CompositeBands(s, iBand + 1, nBand, nBlockXOff, nBlockYOff,
                            pData, FALSE)
        ELSE CompositeBands(s1, iBand + 1, nBand, nBlockXOff, nBlockYOff,
                            pData, bAllDirty)

\* slot 0, which held a tile with a dirty band in s0, is about to be given
\* tile (nRow, nCol) in state s, WriteTile() having returned err
LogRetarget(s0, s, err, nRow, nCol) ==
    IF \E b \in 0 .. (s0.nb - 1) : s0.desc[0].abBandDirty[b]
    THEN [s EXCEPT !.ev.retargeted =
             @ \cup {<< s0.desc[0].nRow, s0.desc[0].nCol, nRow, nCol, err,
                        \E b \in 0 .. (s0.nb - 1) :
                            s.desc[0].abBandDirty[b] >>}]
    ELSE s

\* body of the tile loop of IWriteBlock(), block grid aligned on the tiles
WriteBlockAligned(s, nBand, nBlockXOff, nBlockYOff, pData, nRow, nCol) ==
    LET bSame == nRow = s.desc[0].nRow /\ nCol = s.desc[0].nCol
                 /\ s.desc[0].nIdxWithinTileData = 0
        s1(w) == [LogRetarget(s, w.s, w.err, nRow, nCol) EXCEPT
                     !.desc[0].nRow = nRow, !.desc[0].nCol = nCol,
                     !.desc[0].nIdxWithinTileData = 0]
    IN  Only({ Only({ IF c.bAllDirty
                      THEN WriteTile(c.s)
                      ELSE [s |-> c.s, err |-> w.err]
                      : c \in {CompositeBands(IF bSame THEN s ELSE s1(w), 1,
                                              nBand, nBlockXOff, nBlockYOff,
                                              pData, TRUE)} })
               : w \in {IF bSame THEN [s |-> s, err |-> CE_None]
                        ELSE WriteTile(s)} })

\* body of the tile loop of IWriteBlock(), block grid shifted
WriteBlockShifted(s, nBand, nBlockXOff, nBlockYOff, pData, nRow, nCol, nRowMin, nColMin) ==
    LET nXValid == IF nBlockXOff * nBlockXSize > s.rx - nBlockXSize
                   THEN s.rx - nBlockXOff * nBlockXSize ELSE nBlockXSize
        nYValid == IF nBlockYOff * nBlockYSize > s.ry - nBlockYSize
                   THEN s.ry - nBlockYOff * nBlockYSize ELSE nBlockYSize
        nDstXOffset == IF nCol = nColMin THEN s.sx ELSE 0
        nDstXSize == IF nCol = nColMin THEN Min(nXValid, nBlockXSize - s.sx)
                     ELSE IF nXValid > nBlockXSize - s.sx
                     THEN nXValid - (nBlockXSize - s.sx) ELSE 0
        nSrcXOffset == IF nCol = nColMin THEN 0 ELSE nBlockXSize - s.sx
        nDstYOffset == IF nRow = nRowMin THEN s.sy ELSE 0
        nDstYSize == IF nRow = nRowMin THEN Min(nYValid, nBlockYSize - s.sy)
                     ELSE IF nYValid > nBlockYSize - s.sy
                     THEN nYValid - (nBlockYSize - s.sy) ELSE 0
        nSrcYOffset == IF nRow = nRowMin THEN 0 ELSE nBlockYSize - s.sy
        bCopy == nDstXSize > 0 /\ nDstYSize > 0
        s1 == [s EXCEPT
                 !.mem[nBand - 1] =
                    IF bCopy
                    THEN CopyShifted(@, pData, nDstXOffset, nDstYOffset,
                                     nSrcXOffset, nSrcYOffset,
                                     nDstXSize, nDstYSize)
                    ELSE @,
                 !.desc[0].nRow = -1, !.desc[0].nCol = -1,
                 !.desc[0].nIdxWithinTileData = -1]
    IN  IF bCopy
        THEN WriteShiftedTile(s1, nRow, nCol, nBand, nDstXOffset,
                              nDstYOffset, nDstXSize, nDstYSize)
        ELSE [s |-> s1, err |-> CE_None]

\* tiles (nRow, nCol) a block overlaps, in the order the loops visit them
TilesOfBlock(s, nBlockXOff, nBlockYOff) ==
    LET nRowMin == nBlockYOff + m_nShiftYTiles
        nColMin == nBlockXOff + m_nShiftXTiles
        cols == IF s.sx # 0 THEN << nColMin, nColMin + 1 >> ELSE << nColMin >>
        row(r) == [i \in 1 .. Len(cols) |-> << r, cols[i] >>]
    IN  IF s.sy # 0 THEN row(nRowMin) \o row(nRowMin + 1) ELSE row(nRowMin)

\* the two nested for loops of IWriteBlock(): "eErr == CE_None && ..."
RECURSIVE WriteBlockTiles(_, _, _, _, _, _)
WriteBlockTiles(s, nBand, nBlockXOff, nBlockYOff, pData, todo) ==
    IF todo = << >>
    THEN [s |-> s, err |-> CE_None]
    ELSE LET nRow == Head(todo)[1]
             nCol == Head(todo)[2]
         IN  Only({
               IF w.err # CE_None
               THEN w
               ELSE WriteBlockTiles(w.s, nBand, nBlockXOff, nBlockYOff, pData,
                                    Tail(todo))
               : w \in {IF nRow < 0 \/ nCol < 0
                           \/ nRow >= m_nTileMatrixHeight(s)
                           \/ nCol >= m_nTileMatrixWidth(s)
                        THEN [s |-> s, err |-> CE_None]
                        ELSE IF bShifted(s)
                        THEN WriteBlockShifted(s, nBand, nBlockXOff,
                                               nBlockYOff, pData, nRow, nCol,
                                               nBlockYOff + m_nShiftYTiles,
                                               nBlockXOff + m_nShiftXTiles)
                        ELSE WriteBlockAligned(s, nBand, nBlockXOff,
                                               nBlockYOff, pData, nRow,
                                               nCol)} })

IWriteBlock(s, nBand, nBlockXOff, nBlockYOff, pData) ==
    WriteBlockTiles(s, nBand, nBlockXOff, nBlockYOff, pData,
                    TilesOfBlock(s, nBlockXOff, nBlockYOff))

(***************************************************************************)
(* GDALGPKGMBTilesLikeRasterBand::IReadBlock().                            *)
(* The blocks of the other bands that GetLockedBlockRef() hands out are    *)
(* clean blocks of the host cache; they are not part of the model state.   *)
(***************************************************************************)
\* the cache slots after the "Optimize for left to right reading" step
ArrangeSlots(s, nRowMin, nColMin) ==
    LET d == s.desc
        bReuse == nRowMin = d[0].nRow /\ nColMin = d[0].nCol + 1
                  /\ d[0].nIdxWithinTileData >= 0
        bAsserts == nRowMin = d[1].nRow /\ nColMin = d[1].nCol
                    /\ d[0].nIdxWithinTileData \in {0, 1}
        idx0 == IF bReuse THEN d[1].nIdxWithinTileData ELSE -1
        idx2 == IF bReuse THEN d[3].nIdxWithinTileData ELSE -1
    IN  [s EXCEPT
           !.ev.assertion = @ \/ (bReuse /\ ~bAsserts),
           !.ev.reuse = IF bReuse
                        THEN @ \cup {<< nRowMin, nColMin, d[1].nRow, d[1].nCol,
                                        d[0].nIdxWithinTileData >>}
                        ELSE @,
           !.desc = [i \in 0 .. 3 |->
              [d[i] EXCEPT
                 !.nRow = IF i < 2 THEN nRowMin ELSE nRowMin + 1,
                 !.nCol = IF i % 2 = 0 THEN nColMin ELSE nColMin + 1,
                 !.nIdxWithinTileData =
                    IF i = 0 THEN idx0 ELSE IF i = 2 THEN idx2 ELSE -1]]]

\* the two nested for loops of IReadBlock(): [s, err, data]
RECURSIVE ReadBlockTiles(_, _, _, _, _, _)
ReadBlockTiles(s, nBand, nRowMin, nColMin, pData, todo) ==
    IF todo = << >>
    THEN [s |-> s, err |-> CE_None, data |-> pData]
    ELSE
    LET nRow == Head(todo)[1]
        nCol == Head(todo)[2]
        bSame == nRow = s.desc[0].nRow /\ nCol = s.desc[0].nCol
                 /\ s.desc[0].nIdxWithinTileData = 0
        nSrcXOffset == IF nCol = nColMin THEN s.sx ELSE 0
        nSrcXSize == IF nCol = nColMin THEN nBlockXSize - s.sx ELSE s.sx
        nDstXOffset == IF nCol = nColMin THEN 0 ELSE nBlockXSize - s.sx
        nSrcYOffset == IF nRow = nRowMin THEN s.sy ELSE 0
        nSrcYSize == IF nRow = nRowMin THEN nBlockYSize - s.sy ELSE s.sy
        nDstYOffset == IF nRow = nRowMin THEN 0 ELSE nBlockYSize - s.sy
        data(src) == IF bShifted(s)
                     THEN CopyShifted(pData, src, nDstXOffset, nDstYOffset,
                                      nSrcXOffset, nSrcYOffset,
                                      nSrcXSize, nSrcYSize)
                     ELSE src
    IN  Only({
          IF w.err # CE_None
          THEN [s |-> w.s, err |-> CE_Failure, data |-> pData]
          ELSE Only({
                 IF r.p = NullPtr
                 THEN [s |-> r.s, err |-> CE_Failure, data |-> pData]
                 ELSE ReadBlockTiles(r.s, nBand, nRowMin, nColMin,
                                     data(r.s.mem[r.p + nBand - 1]),
                                     Tail(todo))
                 : r \in {ReadTile(IF ~bShifted(s) /\ ~bSame
                                    THEN LogRetarget(s, w.s, w.err, nRow, nCol)
                                    ELSE w.s, nRow, nCol)} })
          : w \in {IF ~bShifted(s) /\ ~bSame
                   THEN WriteTile(s) ELSE [s |-> s, err |-> CE_None]} })

IReadBlock(s, nBand, nBlockXOff, nBlockYOff, pData) ==
    LET nRowMin == nBlockYOff + m_nShiftYTiles
        nColMin == nBlockXOff + m_nShiftXTiles
        s1 == IF bShifted(s) THEN ArrangeSlots(s, nRowMin, nColMin) ELSE s
    IN  ReadBlockTiles(s1, nBand, nRowMin, nColMin, pData,
                       TilesOfBlock(s, nBlockXOff, nBlockYOff))

(***************************************************************************)
(* The state machine.  An action runs one entry point on the record made   *)
(* of the variables and installs the record it returns.                    *)
(***************************************************************************)
St(f, re, bTryFreeing) ==
    [ nb |-> nBands, sx |-> m_nShiftXPixelsMod, sy |-> m_nShiftYPixelsMod,
      rx |-> nRasterXSize, ry |-> nRasterYSize,
      desc |-> m_asCachedTilesDesc, mem |-> m_pabyCachedTiles,
      cnt |-> m_nTileInsertionCount, inWT |-> m_bInWriteTile,
      age |-> m_nAge, tempDB |-> m_hTempDB, tiles |-> tiles,
      pt |-> partial_tiles, lastId |-> nLastId, txn |-> bInTransaction,
      anc |-> gridded_tile_ancillary, tileSeq |-> nLastTileId,
      commits |-> nCommits, noFlush |-> nDisableDirtyBlockFlush,
      host |-> hostDirty, f |-> f, re |-> re, evict |-> bTryFreeing,
      zoom |-> m_nZoomLevel, bParent |-> FALSE, parentDB |-> FALSE,
      ev |-> NoEvents ]

Install(s) ==
    /\ m_asCachedTilesDesc' = s.desc
    /\ m_pabyCachedTiles' = s.mem
    /\ m_nTileInsertionCount' = s.cnt
    /\ m_bInWriteTile' = s.inWT
    /\ m_nAge' = s.age
    /\ m_hTempDB' = s.tempDB
    /\ tiles' = s.tiles
    /\ partial_tiles' = s.pt
    /\ nLastId' = s.lastId
    /\ gridded_tile_ancillary' = s.anc
    /\ nLastTileId' = s.tileSeq
    /\ bInTransaction' = s.txn
    /\ nCommits' = s.commits
    /\ nDisableDirtyBlockFlush' = s.noFlush
    /\ hostDirty' = s.host
    /\ UNCHANGED << scenario, nBands, m_nShiftXPixelsMod,
                    m_nShiftYPixelsMod, nRasterXSize, nRasterYSize,
                    overviewDS >>

\* the injected fault and the re-entry took place
Consumed(s) == s.f = "none" /\ s.re = "none"

LiveKeys(s) == {<< r.tile_row, r.tile_column >> : r \in LiveRecords(s)}

Outcome(op, blk, s0, s1, ret, data) ==
    [ op |-> op, blk |-> blk, ret |-> ret, data |-> data, ev |-> s1.ev,
      cnt0 |-> s0.cnt, age0 |-> s0.age,
      lost |-> (LiveKeys(s0) \ LiveKeys(s1))
               \ (s1.ev.primary \cup s1.ev.sparse) ]

Blocks ==
    {<< b, x, y >> : b \in 1 .. nBands,
                     x \in 0 .. (nRasterXSize \div nBlockXSize - 1),
                     y \in 0 .. (nRasterYSize \div nBlockYSize - 1)}

Inputs == FaultKinds \cup {"none"}
ReentryPoints == {"none", "read", "encode"}
Disturbed(f, re) == f # "none" \/ re # "none"
\* an operation runs with one fault, or one re-entry, or neither
Admitted(f, re) ==
    /\ f = "none" \/ re = "none"
    /\ Disturbed(f, re) => nFaults < MaxFaults

\* data versions the user writes a block with
Versions(blk) ==
    IF nBands = 2 /\ blk[1] = 2 THEN scenario.va ELSE scenario.vs

\* the user writes a block: it becomes a dirty block of the host cache
UserWrite(blk, v) ==
    /\ nWrites < scenario.wr
    /\ blk \notin DOMAIN hostDirty
    /\ Cardinality(DOMAIN hostDirty) < scenario.hd
    /\ scenario.rw \/ blk \notin DOMAIN written
    /\ hostDirty' = [x \in (DOMAIN hostDirty) \cup {blk} |->
                        IF x = blk THEN v ELSE hostDirty[x]]
    /\ written' = [x \in (DOMAIN written) \cup {blk} |->
                      IF x = blk THEN v ELSE written[x]]
    /\ nWrites' = nWrites + 1
    /\ bFlushed' = FALSE
    /\ last' = Outcome("UserWrite", blk, St("none", "none", FALSE),
                       St("none", "none", FALSE), CE_None, << >>)
    /\ UNCHANGED << nBands, m_nShiftXPixelsMod, m_nShiftYPixelsMod,
                    nRasterXSize, nRasterYSize, m_asCachedTilesDesc,
                    m_pabyCachedTiles, m_nTileInsertionCount, m_bInWriteTile,
                    m_nAge, m_hTempDB, tiles, partial_tiles, nLastId,
                    bInTransaction, nCommits, nDisableDirtyBlockFlush,
                    nReads, nFaults, scenario, gridded_tile_ancillary,
                    nLastTileId, overviewDS, reading >>

\* the host cache flushes a dirty block: it is marked clean and handed to
\* IWriteBlock()
FlushBlock(blk, f, re, bTryFreeing) ==
    /\ blk \in DOMAIN hostDirty
    /\ Admitted(f, re)
    /\ bTryFreeing => (m_nShiftXPixelsMod # 0 \/ m_nShiftYPixelsMod # 0)
    /\ LET st == St(f, re, bTryFreeing)
           s0 == [st EXCEPT !.host =
                     [x \in (DOMAIN hostDirty) \ {blk} |-> hostDirty[x]]]
       IN  \E r \in {IWriteBlock(s0, blk[1], blk[2], blk[3],
                                 BlockData(hostDirty[blk], blk[1] - 1,
                                           blk[2], blk[3]))} :
               /\ Consumed(r.s)
               /\ Install(r.s)
               /\ last' = Outcome("IWriteBlock", blk, s0, r.s, r.err, << >>)
    /\ nFaults' = IF Disturbed(f, re) THEN nFaults + 1 ELSE nFaults
    /\ UNCHANGED << written, nWrites, nReads, bFlushed, reading >>

\* the host cache loads a block that it does not hold: IReadBlock()
LoadBlock(blk, f, re) ==
    /\ blk \notin DOMAIN hostDirty
    /\ nReads < scenario.rd
    /\ Admitted(f, re)
    /\ LET s0 == St(f, re, FALSE)
       IN  \E r \in {IReadBlock(s0, blk[1], blk[2], blk[3], EmptyBand)} :
               /\ Consumed(r.s)
               /\ Install(r.s)
               /\ last' = Outcome("IReadBlock", blk, s0, r.s, r.err, r.data)
    /\ nReads' = nReads + 1
    /\ nFaults' = IF Disturbed(f, re) THEN nFaults + 1 ELSE nFaults
    /\ UNCHANGED << written, nWrites, bFlushed, reading >>

\* FlushTiles(), as FlushCache() calls it once the dirty blocks are written
FlushCache(f, re) ==
    /\ DOMAIN hostDirty = {}
    /\ Admitted(f, re)
    /\ LET s0 == St(f, re, FALSE)
       IN  \E r \in {FlushTiles(s0)} :
               /\ Consumed(r.s)
               /\ Install(r.s)
               /\ last' = Outcome("FlushTiles", << >>, s0, r.s, r.err, << >>)
               /\ bFlushed' = (r.err = CE_None)
    /\ nFaults' = IF Disturbed(f, re) THEN nFaults + 1 ELSE nFaults
    /\ UNCHANGED << written, nWrites, nReads, reading >>

\* the datasets of the model: band count, pixel shift, size in blocks,
\* data versions of the colour (vs) and alpha (va) blocks, caps of the
\* number of writes (wr), of loads (rd) and of dirty host blocks (hd),
\* and whether a block may be written again (rw)
Scenarios ==
    { [nb |-> 1, sx |-> 0, sy |-> 0, nx |-> 2, ny |-> 1,
       vs |-> {0, 1}, va |-> {}, wr |-> MaxWrites, rd |-> MaxReads,
       hd |-> MaxHostDirty, rw |-> TRUE],
      [nb |-> 2, sx |-> 0, sy |-> 0, nx |-> 1, ny |-> 1,
       vs |-> {0, 1}, va |-> {0, 1, 2}, wr |-> MaxWrites, rd |-> MaxReads,
       hd |-> MaxHostDirty, rw |-> TRUE],
      [nb |-> 1, sx |-> BlockSize \div 2, sy |-> 0, nx |-> 2, ny |-> 1,
       vs |-> {0, 1}, va |-> {}, wr |-> MaxWrites, rd |-> 1,
       hd |-> MaxHostDirty, rw |-> TRUE],
      [nb |-> 2, sx |-> BlockSize \div 2, sy |-> 0, nx |-> 1, ny |-> 1,
       vs |-> {1}, va |-> {0, 2}, wr |-> MaxWrites, rd |-> MaxReads,
       hd |-> MaxHostDirty, rw |-> TRUE] }

\* the same four datasets for the behaviours with a failing step
FaultScenarios ==
    { [nb |-> 1, sx |-> 0, sy |-> 0, nx |-> 2, ny |-> 1,
       vs |-> {0, 1}, va |-> {}, wr |-> 2, rd |-> 1,
       hd |-> MaxHostDirty, rw |-> TRUE],
      [nb |-> 2, sx |-> 0, sy |-> 0, nx |-> 1, ny |-> 1,
       vs |-> {1}, va |-> {2}, wr |-> MaxWrites, rd |-> 1,
       hd |-> MaxHostDirty, rw |-> TRUE],
      [nb |-> 1, sx |-> BlockSize \div 2, sy |-> 0, nx |-> 2, ny |-> 1,
       vs |-> {1}, va |-> {}, wr |-> MaxWrites, rd |-> 1,
       hd |-> MaxHostDirty, rw |-> TRUE],
      [nb |-> 2, sx |-> BlockSize \div 2, sy |-> 0, nx |-> 1, ny |-> 1,
       vs |-> {1}, va |-> {2}, wr |-> 2, rd |-> 1,
       hd |-> MaxHostDirty, rw |-> TRUE] }

\* the datasets in which every block is written once: shifted in x with 1
\* and with 2 bands, shifted in y, shifted in x and in y
QuadrantScenarios ==
    { [nb |-> 1, sx |-> BlockSize \div 2, sy |-> 0, nx |-> 2, ny |-> 1,
       vs |-> {0, 1}, va |-> {}, wr |-> 2, rd |-> 1, hd |-> 1,
       rw |-> FALSE],
      [nb |-> 2, sx |-> BlockSize \div 2, sy |-> 0, nx |-> 2, ny |-> 1,
       vs |-> {1}, va |-> {0, 1, 2}, wr |-> 4, rd |-> 1, hd |-> 1,
       rw |-> FALSE],
      [nb |-> 1, sx |-> 0, sy |-> BlockSize \div 2, nx |-> 1, ny |-> 2,
       vs |-> {0, 1}, va |-> {}, wr |-> 2, rd |-> 1, hd |-> 1,
       rw |-> FALSE],
      [nb |-> 1, sx |-> BlockSize \div 2, sy |-> BlockSize \div 2,
       nx |-> 2, ny |-> 2,
       vs |-> {1}, va |-> {}, wr |-> 4, rd |-> 1, hd |-> 1,
       rw |-> FALSE] }

\* byte patterns of the cache memory, which is allocated uninitialised
JunkFills == {0, 170}

\* no IReadBlock() call is running
NotReading ==
    [ at |-> "idle", blk |-> << >>, todo |-> << >>, iBand |-> 0,
      p |-> NullPtr, data |-> << >>, nRetries |-> 0, nDirty0 |-> 0 ]

InitDataset(sc, junk) ==
    /\ scenario = sc
    /\ nBands = sc.nb
    /\ m_nShiftXPixelsMod = sc.sx
    /\ m_nShiftYPixelsMod = sc.sy
    /\ nRasterXSize = sc.nx * nBlockXSize
    /\ nRasterYSize = sc.ny * nBlockYSize
    /\ m_asCachedTilesDesc = [i \in 0 .. 3 |-> EmptySlot]
    /\ m_pabyCachedTiles = [k \in BandIdx |-> [i \in PixIdx |-> junk]]
    /\ m_nTileInsertionCount = 0
    /\ m_bInWriteTile = FALSE
    /\ m_nAge = 0
    /\ m_hTempDB = FALSE
    /\ overviewDS = [ desc |-> [i \in 0 .. 3 |-> EmptySlot],
                      mem |-> [k \in BandIdx |-> [i \in PixIdx |-> junk]],
                      inWT |-> FALSE, tempDB |-> FALSE ]
    /\ tiles = << >>
    /\ partial_tiles = {}
    /\ nLastId = 0
    /\ gridded_tile_ancillary = {}
    /\ nLastTileId = 0
    /\ bInTransaction = FALSE
    /\ nCommits = 0
    /\ nDisableDirtyBlockFlush = 0
    /\ hostDirty = << >>
    /\ written = << >>
    /\ nWrites = 0
    /\ nReads = 0
    /\ bFlushed = FALSE
    /\ nFaults = 0
    /\ reading = NotReading
    /\ last = [ op |-> "Init", blk |-> << >>, ret |-> CE_None,
                data |-> << >>, ev |-> NoEvents, cnt0 |-> 0, age0 |-> 0,
                lost |-> {} ]

Init == \E sc \in Scenarios : \E junk \in JunkFills : InitDataset(sc, junk)

Step(F, R) ==
    \/ \E blk \in Blocks : \E v \in Versions(blk) : UserWrite(blk, v)
    \/ \E blk \in Blocks : \E f \in F : \E re \in R :
       \E bTryFreeing \in BOOLEAN : FlushBlock(blk, f, re, bTryFreeing)
    \/ \E blk \in Blocks : \E f \in F : \E re \in R : LoadBlock(blk, f, re)
    \/ \E f \in F : \E re \in R : FlushCache(f, re)

\* no step fails
Next == Step({"none"}, {"none"})
\* any one operation may run with a failing step or a re-entry
NextFaults == Step(Inputs, ReentryPoints)

Spec == Init /\ [][Next]_vars

InitFaults ==
    \E sc \in FaultScenarios : \E junk \in JunkFills : InitDataset(sc, junk)
SpecFaults == InitFaults /\ [][NextFaults]_vars

\* every block of a shifted raster is written once, in any order, with or
\* without shortage of space; then the cache is flushed and blocks are read
InitQuadrants ==
    \E sc \in QuadrantScenarios : \E junk \in JunkFills :
        InitDataset(sc, junk)
NextQuadrants ==
    \/ \E blk \in Blocks : \E v \in Versions(blk) : UserWrite(blk, v)
    \/ \E blk \in Blocks : \E bTryFreeing \in BOOLEAN :
           FlushBlock(blk, "none", "none", bTryFreeing)
    \/ DOMAIN written = Blocks /\ FlushCache("none", "none")
    \/ \E blk \in Blocks : bFlushed /\ LoadBlock(blk, "none", "none")
SpecQuadrants == InitQuadrants /\ [][NextQuadrants]_vars

\* eviction: a raster shifted in x and in y whose blocks are written once,
\* up to two of them dirty in the host cache at a time, with or without
\* shortage of space at each block flush
EvictScenario ==
    [nb |-> 1, sx |-> BlockSize \div 2, sy |-> BlockSize \div 2,
     nx |-> 2, ny |-> 2, vs |-> {0, 1}, va |-> {}, wr |-> 3, rd |-> 0,
     hd |-> MaxHostDirty, rw |-> FALSE]
InitEvict == \E junk \in JunkFills : InitDataset(EvictScenario, junk)
NextEvict ==
    \/ \E blk \in Blocks : \E v \in Versions(blk) : UserWrite(blk, v)
    \/ \E blk \in Blocks : \E bTryFreeing \in BOOLEAN :
           FlushBlock(blk, "none", "none", bTryFreeing)
    \/ FlushCache("none", "none")
SpecEvict == InitEvict /\ [][NextEvict]_vars

\* transaction batching: the tiles of an aligned 1-band raster of
\* MaxBatchTiles blocks are written from left to right, each block flushed
\* by the host before the next is written; FlushTiles() ends the session
BatchScenario ==
    [nb |-> 1, sx |-> 0, sy |-> 0, nx |-> MaxBatchTiles, ny |-> 1,
     vs |-> {1}, va |-> {}, wr |-> MaxBatchTiles, rd |-> 0, hd |-> 1,
     rw |-> FALSE]
\* (no band of the cache memory is read before it is written here)
InitBatch == InitDataset(BatchScenario, FillValue)
NextBatch ==
    \/ ~bFlushed /\ last.op # "FlushTiles"
       /\ UserWrite(<< 1, nWrites, 0 >>, 1)
    \/ \E blk \in DOMAIN hostDirty : FlushBlock(blk, "none", "none", FALSE)
    \/ ~bFlushed /\ last.op # "FlushTiles" /\ FlushCache("none", "none")
SpecBatch == InitBatch /\ [][NextBatch]_vars

(***************************************************************************)
(* Properties.                                                             *)
(***************************************************************************)
\* the pixels block blk was last written with
WrittenData(blk) == BlockData(written[blk], blk[1] - 1, blk[2], blk[3])

\* C1: a block read (IReadBlock) that follows a block write (IWriteBlock) of
\* the same block returns the pixels most recently written, whether the
\* write is still dirty in cache slot 0, held in a live overflow record or
\* flushed to the primary table.
C1_ReadAfterWrite ==
    (last.op = "IReadBlock" /\ last.ret = CE_None
     /\ last.blk \in DOMAIN written)
        => last.data = WrittenData(last.blk)

\* tile column / row and the pixel of the tile that holds pixel i of a block
TileColOfPixel(blk, i) ==
    blk[2] + m_nShiftXTiles
        + ((i % nBlockXSize) + m_nShiftXPixelsMod) \div nBlockXSize
TileRowOfPixel(blk, i) ==
    blk[3] + m_nShiftYTiles
        + ((i \div nBlockXSize) + m_nShiftYPixelsMod) \div nBlockYSize
\* the value written at pixel (x, y) of band b of tile (nRow, nCol); 0 where
\* the tile lies outside of the raster or the block has not been written
WrittenAt(b, nRow, nCol, x, y) ==
    LET gx == (nCol - m_nShiftXTiles) * nBlockXSize + x - m_nShiftXPixelsMod
        gy == (nRow - m_nShiftYTiles) * nBlockYSize + y - m_nShiftYPixelsMod
        blk == << b, gx \div nBlockXSize, gy \div nBlockYSize >>
    IN  IF gx < 0 \/ gy < 0 \/ gx >= nRasterXSize \/ gy >= nRasterYSize
           \/ blk \notin DOMAIN written
        THEN 0
        ELSE WrittenData(blk)[(gy % nBlockYSize) * nBlockXSize
                              + (gx % nBlockXSize)]
\* the alpha band of tile (nRow, nCol) has been written 0 everywhere
WrittenTransparent(nRow, nCol) ==
    /\ nBands = 2
    /\ \A x \in 0 .. (nBlockXSize - 1) : \A y \in 0 .. (nBlockYSize - 1) :
           WrittenAt(2, nRow, nCol, x, y) = 0
\* the written pixels of a block, with 0 in the tiles written transparent
WrittenUnlessTransparent(blk) ==
    [i \in PixIdx |->
        IF WrittenTransparent(TileRowOfPixel(blk, i), TileColOfPixel(blk, i))
        THEN 0 ELSE WrittenData(blk)[i]]

PrimaryTile(nRow, nCol) ==
    LET key == << m_nZoomLevel, nRow, nCol >>
    IN  IF key \in DOMAIN tiles THEN tiles[key] ELSE NoBlob
\* the tile one WriteTile() of the written pixels leaves in an empty primary
\* table: cache slot 0 holds the whole tile with every band dirty
FullTileWrite(nRow, nCol) ==
    LET s0 == St("none", "none", FALSE)
        s1 == [s0 EXCEPT
                 !.tiles = << >>, !.cnt = 0, !.txn = FALSE,
                 !.mem = [k \in BandIdx |->
                            IF k < nBands
                            THEN [i \in PixIdx |->
                                    WrittenAt(k + 1, nRow, nCol,
                                              i % nBlockXSize,
                                              i \div nBlockXSize)]
                            ELSE s0.mem[k]],
                 !.desc[0] = [nRow |-> nRow, nCol |-> nCol,
                              nIdxWithinTileData |-> 0,
                              abBandDirty |-> AllDirty]]
        key == << m_nZoomLevel, nRow, nCol >>
        w == WriteTile(s1)
    IN  IF key \in DOMAIN w.s.tiles THEN w.s.tiles[key] ELSE NoBlob
\* the blocks that overlap tile (nRow, nCol)
BlocksOfTile(nRow, nCol) ==
    {blk \in Blocks :
        \E i \in PixIdx : TileRowOfPixel(blk, i) = nRow
                          /\ TileColOfPixel(blk, i) = nCol}
\* tiles that lie inside the raster: 4 x nBands quadrant bits to write
InnerTiles ==
    {T \in (0 .. nRasterYSize \div nBlockYSize)
            \X (0 .. nRasterXSize \div nBlockXSize) :
        /\ (T[2] - m_nShiftXTiles) * nBlockXSize - m_nShiftXPixelsMod >= 0
        /\ (T[2] - m_nShiftXTiles + 1) * nBlockXSize - m_nShiftXPixelsMod
               <= nRasterXSize
        /\ (T[1] - m_nShiftYTiles) * nBlockYSize - m_nShiftYPixelsMod >= 0
        /\ (T[1] - m_nShiftYTiles + 1) * nBlockYSize - m_nShiftYPixelsMod
               <= nRasterYSize}
\* every quadrant of every band of the tile has gone through IWriteBlock()
QuadrantsWritten(T) ==
    \A blk \in BlocksOfTile(T[1], T[2]) :
        blk \in DOMAIN written /\ blk \notin DOMAIN hostDirty

C4_NoRecordDropped == last.lost = {}

\* C5: starting with no open transaction, N tile upserts through
\* WriteTile() followed by one FlushTiles() make ceil(N / 1000) commits and
\* leave the N tiles in the primary table.
C5_BatchedCommits ==
    (last.op = "FlushTiles" /\ last.ret = CE_None)
        => /\ nCommits = DivRoundUp(nWrites, TilesPerTransaction)
           /\ DOMAIN tiles = {<< m_nZoomLevel, 0, c >> : c \in 0 .. (nWrites - 1)}
           /\ ~bInTransaction

\* FlushTiles() after more upserts than one batch holds: the full batch was
\* committed by the batcher, the remainder by FlushTiles()
C5_Witness ==
    /\ last.op = "FlushTiles" /\ last.ret = CE_None
    /\ nWrites > TilesPerTransaction
    /\ nCommits = 2
    /\ Cardinality(DOMAIN tiles) = nWrites

\* C6: once a commit has failed the batcher is poisoned for the rest of the
\* session: in every later operation the insertion count stays at -1, no
\* WriteTile() succeeds, FlushTiles() fails, and no statement writes to the
\* primary table or to partial_tiles.
C6_PoisonedForGood ==
    last.cnt0 = -1 =>
        /\ m_nTileInsertionCount = -1
        /\ ~last.ev.wtOK
        /\ (last.op = "FlushTiles" => last.ret = CE_Failure)
        /\ ~last.ev.primWrite
        /\ ~last.ev.ovfWrite

\* C7: every statement that writes to the primary table or to partial_tiles
\* runs while a transaction of the batcher is open.
C7_WritesInTransaction == ~last.ev.noTxnWrite

\* C8: an IWriteBlock() or FlushTiles() in which a store, transaction or
\* codec step failed returns CE_Failure.
C8_FailurePropagates ==
    (last.op \in {"IWriteBlock", "FlushTiles"} /\ last.ev.failed)
        => last.ret = CE_Failure

\* C9: a WriteTile() entered with a dirty band in cache slot 0 returns, with
\* CE_None or with CE_Failure, with every dirty flag of slot 0 cleared.
C9_SlotClearedAfterWriteTile == ~last.ev.wtLeftDirty

\* C10: a WriteTile() entered while another one is running returns
\* CE_Failure and leaves the cache slots, the dirty flags, the insertion
\* count and both tables as it found them; m_bInWriteTile and the
\* dirty-block-flush disabling are released when the outer call returns.
C10_NestedWriteTileRejected ==
    /\ last.ev.nested # "none"
           => (last.ev.nested = CE_Failure /\ last.ev.nestedSame)
    /\ ~m_bInWriteTile
    /\ nDisableDirtyBlockFlush = 0

\* a WriteTile() was entered from inside a running WriteTile() that had a
\* tile to store, and the outer call went on to store it
C10_Witness ==
    /\ last.ev.nested = CE_Failure
    /\ last.ev.wtOnDirty
    /\ last.ev.primary # {}

\* C11: a tile that WriteTile() flushes while it is fully transparent (alpha
\* band all 0) or, without alpha band, all zero, has no row in the primary
\* table afterwards.
C11_NoRowForEmptyTile ==
    \A T \in last.ev.flushedEmpty :
        << m_nZoomLevel, T[1], T[2] >> \notin DOMAIN tiles

\* C12 as stated: a WriteTile() on a cache slot 0 without dirty band returns
\* CE_None and changes nothing: cache, primary table, partial_tiles,
\* transaction and insertion count are as before.
C12_CleanWriteTileNoOp ==
    /\ last.ev.wtClean \subseteq {CE_None}
    /\ last.ev.wtCleanSame

\* C12 amended: it changes nothing, and returns CE_None unless the batcher
\* is poisoned (insertion count -1) or the call is made from inside a
\* running WriteTile(), in which cases it returns CE_Failure.
C12_CleanWriteTileNoOpUnlessPoisoned ==
    /\ last.ev.wtClean \subseteq
           (IF last.cnt0 < 0 THEN {CE_Failure}
            ELSE IF last.ev.nested # "none" THEN {CE_None, CE_Failure}
            ELSE {CE_None})
    /\ last.ev.wtCleanSame

\* a WriteTile() found slot 0 without dirty band, with tiles in the primary
\* table and a transaction open, and returned CE_None
C12_Witness ==
    /\ last.ev.wtClean = {CE_None}
    /\ \A i \in BandSlots : ~m_asCachedTilesDesc[0].abBandDirty[i]
    /\ tiles # << >>
    /\ bInTransaction
    /\ ~last.ev.primWrite

\* C13: a partial flush (FlushRemainingShiftedTiles(true)) flushes no record
\* of a tile that a dirty block of the host cache overlaps.
C13_NoEvictionUnderDirtyBlock ==
    \A T \in last.ev.evicted :
        BlocksOfTile(T[1], T[2]) \cap DOMAIN hostDirty = {}

DecodedBand(blob, b) ==
    LET raw == [k \in BandIdx |->
                   IF k < blob.nb THEN blob.px[k] ELSE EmptyBand]
    IN  Reconcile(nBands, blob.nb, raw, 0)[b - 1]
\* the write of block blk has been flushed out of the host cache and out of
\* cache slot 0
Flushed(blk) ==
    /\ blk \in DOMAIN written
    /\ blk \notin DOMAIN hostDirty
    /\ ~(/\ m_asCachedTilesDesc[0].nRow = blk[3] + m_nShiftYTiles
         /\ m_asCachedTilesDesc[0].nCol = blk[2] + m_nShiftXTiles
         /\ m_asCachedTilesDesc[0].abBandDirty[blk[1] - 1])

\* C15: the band reconciliation chosen when a tile is encoded (number of
\* stored bands, source band of each) is inverted when it is decoded: in
\* aligned geometry, every band of a flushed tile that has a row in the
\* primary table decodes to the pixels written to that band, an alpha band
\* that was dropped being synthesised as 255.
C15_ReconciliationInverted ==
    (m_nShiftXPixelsMod = 0 /\ m_nShiftYPixelsMod = 0) =>
        \A blk \in Blocks :
            (Flushed(blk)
             /\ PrimaryTile(blk[3] + m_nShiftYTiles, blk[2] + m_nShiftXTiles)
                    # NoBlob)
                => DecodedBand(PrimaryTile(blk[3] + m_nShiftYTiles,
                                           blk[2] + m_nShiftXTiles),
                               blk[1]) = WrittenData(blk)

(***************************************************************************)
(* 16-bit tiles (m_eTF == GPKG_TF_PNG_16BIT).  The doubles of the code are *)
(* exact rationals here: m_dfScale is 1 / sd, so that the global value     *)
(* (nVal - m_dfOffset) / m_dfScale is the integer (nVal - m_dfOffset) * sd,*)
(* and dfTileScale is the fraction n / d.                                  *)
(***************************************************************************)
RECURSIVE GCD(_, _)
GCD(a, b) == IF b = 0 THEN a ELSE GCD(b, a % b)

\* a * b = q * c + r with 0 <= r < c, for a >= 0, b >= 0, c > 0, computed
\* by doubling so that no intermediate value leaves 32 bits
RECURSIVE MulDivMod(_, _, _)
MulDivMod(a, b, c) ==
    IF a = 0
    THEN [q |-> 0, r |-> 0]
    ELSE Only({ Only({ [q |-> 2 * h.q + t \div c, r |-> t % c]
                       : t \in {2 * h.r + (IF a % 2 = 1 THEN b ELSE 0)} })
                : h \in {MulDivMod(a \div 2, b, c)} })

\* SetNoDataValue(): the stored value that stands for no-data
GPKGNullOf(bIsInt16, m_dfOffset, sd, dfNoDataValue) ==
    IF ~bIsInt16 /\ m_dfOffset = 0 /\ sd = 1
       /\ dfNoDataValue >= 0 /\ dfNoDataValue <= 65535
    THEN dfNoDataValue
    ELSE 65535

\* static_cast<GUInt16>(x) of a double outside of [0, 65536) is undefined:
\* builds either truncate the integer part to 16 bits or saturate
CastOutOfRange(ub, nTrunc) ==
    IF ub = "wrap" THEN nTrunc % 65536
    ELSE IF nTrunc < 0 THEN 0 ELSE 65535

\* ProcessInt16UInt16Tile<T>(), first half: the valid samples and the
\* per-tile offset and scale.  q.px are the samples, q.bHasNoData,
\* q.dfNoDataValue, q.usGPKGNull, q.m_dfOffset, q.sd the band's settings
TileOffsetAndScale(q) ==
    LET valid == {i \in DOMAIN q.px :
                     ~(q.bHasNoData /\ q.px[i] = q.dfNoDataValue)}
        nMin == IF valid = {} THEN 0
                ELSE CHOOSE v \in {q.px[i] : i \in valid} :
                        \A i \in valid : v <= q.px[i]
        nMax == IF valid = {} THEN 0
                ELSE CHOOSE v \in {q.px[i] : i \in valid} :
                        \A i \in valid : v >= q.px[i]
        dfGlobalMin == (nMin - q.m_dfOffset) * q.sd
        dfGlobalMax == (nMax - q.m_dfOffset) * q.sd
        dfRange == IF q.bHasNoData /\ q.usGPKGNull = 65535
                      /\ dfGlobalMax - dfGlobalMin >= 65535
                   THEN 65534 ELSE 65535
        g == GCD(dfGlobalMax - dfGlobalMin, dfRange)
        scale1 == IF dfGlobalMax - dfGlobalMin > dfRange
                  THEN [n |-> (dfGlobalMax - dfGlobalMin) \div g,
                        d |-> dfRange \div g]
                  ELSE [n |-> 1, d |-> 1]
        \* dfGlobalMax / dfTileScale and dfRange * dfTileScale
        maxOverScale == MulDivMod(IF dfGlobalMax < 0 THEN 0 ELSE dfGlobalMax,
                                  scale1.d, scale1.n)
        rangeTimesScale == MulDivMod(dfRange, scale1.n, scale1.d).q
        offset1 == IF dfGlobalMin < 0
                   THEN -dfGlobalMin
                   ELSE IF maxOverScale.q > dfRange
                           \/ (maxOverScale.q = dfRange /\ maxOverScale.r > 0)
                   THEN dfGlobalMax - rangeTimesScale
                   ELSE 0
        bUnsignedIdentity == q.bHasNoData /\ ~q.bIsInt16
                             /\ q.m_dfOffset = 0 /\ q.sd = 1
        bSignedIdentity == q.bHasNoData /\ q.bIsInt16
                           /\ q.dfNoDataValue = -32768
                           /\ q.usGPKGNull = 65535
                           /\ q.m_dfOffset = -32768 /\ q.sd = 1
    IN  [valid |-> valid,
         dfTileOffset |-> IF bUnsignedIdentity THEN 0
                          ELSE IF bSignedIdentity THEN 1 ELSE offset1,
         dfTileScale |-> IF bUnsignedIdentity \/ bSignedIdentity
                         THEN [n |-> 1, d |-> 1] ELSE scale1]

\* ProcessInt16UInt16Tile<T>(), second half: the stored value of sample
\* nVal under the offset and scale p, and whether the assertion holds
EncodeSample(q, p, nVal, ub) ==
    LET X == (nVal - q.m_dfOffset) * q.sd - p.dfTileOffset
        \* twice dfVal, rounded down, for dfVal >= 0
        twice == MulDivMod(2 * (IF X < 0 THEN -X ELSE X),
                           p.dfTileScale.d, p.dfTileScale.n).q
        bInRange == X >= 0 /\ twice < 131071
        cast == IF bInRange THEN (twice + 1) \div 2
                ELSE IF X >= 0
                THEN CastOutOfRange(ub, (twice + 1) \div 2)
                ELSE CastOutOfRange(ub, -((twice - 1) \div 2))
    IN  [bInRange |-> bInRange,
         stored |-> IF q.bHasNoData /\ cast = q.usGPKGNull
                    THEN (IF q.usGPKGNull > 0 THEN cast - 1 ELSE cast + 1)
                    ELSE cast]

\* ProcessInt16UInt16Tile<T>()
ProcessInt16UInt16Tile(q, ub) ==
    Only({ Only({ [pTempTileBuffer |->
                      [i \in DOMAIN q.px |->
                          IF i \in p.valid THEN enc[i].stored
                          ELSE q.usGPKGNull],
                   dfTileOffset |-> p.dfTileOffset,
                   dfTileScale |-> p.dfTileScale,
                   nValidPixels |-> Cardinality(p.valid),
                   bAsserted |-> \A i \in p.valid : enc[i].bInRange]
                  : enc \in {[i \in DOMAIN q.px |->
                                EncodeSample(q, p, q.px[i], ub)]} })
           : p \in {TileOffsetAndScale(q)} })

\* ReadTile(osMemFileName, ...), m_eDT == GDT_Int16 or GDT_UInt16: the
\* samples the stored values decode to
DecodeInt16UInt16Tile(q, e) ==
    LET dfVal(us) ==
            Only({ q.m_dfOffset
                   + (2 * (m.q + e.dfTileOffset) + q.sd
                      + (IF 2 * m.r >= e.dfTileScale.d THEN 1 ELSE 0))
                     \div (2 * q.sd)
                   : m \in {MulDivMod(us, e.dfTileScale.n,
                                      e.dfTileScale.d)} })
        orNoData(us) == IF q.bHasNoData /\ us = q.usGPKGNull
                        THEN q.dfNoDataValue ELSE dfVal(us)
        clamp(v, lo, hi) == IF v > hi THEN hi ELSE IF v < lo THEN lo ELSE v
    IN  [i \in DOMAIN e.pTempTileBuffer |->
            IF q.bIsInt16
            THEN clamp(orNoData(e.pTempTileBuffer[i]), -32768, 32767)
            ELSE IF q.m_dfOffset # 0 \/ q.sd # 1 \/ e.dfTileOffset # 0
                    \/ e.dfTileScale # [n |-> 1, d |-> 1]
            THEN clamp(orNoData(e.pTempTileBuffer[i]), 0, 65535)
            ELSE e.pTempTileBuffer[i]]

\* the samples a tile is made of: the first pixel and the other pixels
Int16Samples == {-32768, -5, 0, 3, 32767}
UInt16Samples == {0, 3, 40000, 65535}
QuantInputs ==
    { [bIsInt16 |-> t, bHasNoData |-> h,
       dfNoDataValue |-> IF h THEN nd ELSE 0,
       usGPKGNull |-> IF h THEN GPKGNullOf(t, off, sd, nd) ELSE 65535,
       m_dfOffset |-> off, sd |-> sd,
       px |-> [i \in PixIdx |-> IF i = 0 THEN ab[1] ELSE ab[2]]]
      : t \in BOOLEAN, off \in {0, -32768}, sd \in {1, 2},
        h \in BOOLEAN, nd \in {-32768, 0, 65535},
        ab \in (Int16Samples \cup UInt16Samples)
                 \X (Int16Samples \cup UInt16Samples) }
QuantScenarios ==
    { [nb |-> 1, sx |-> 0, sy |-> 0, nx |-> 1, ny |-> 1, vs |-> {},
       va |-> {}, wr |-> 0, rd |-> 0, hd |-> 0, rw |-> FALSE, q |-> q]
      : q \in {q \in QuantInputs :
                 /\ \A i \in PixIdx :
                       q.px[i] \in (IF q.bIsInt16 THEN Int16Samples
                                    ELSE UInt16Samples)
                 /\ q.bHasNoData =>
                       q.dfNoDataValue \in (IF q.bIsInt16
                                            THEN -32768 .. 32767
                                            ELSE 0 .. 65535)} }

\* WriteTileInternal() of a 16-bit tile, up to the encoded samples
EncodeTile16(ub) ==
    /\ "q" \in DOMAIN scenario
    /\ last.op = "Init"
    /\ last' = [last EXCEPT
                  !.op = "ProcessInt16UInt16Tile",
                  !.data = ProcessInt16UInt16Tile(scenario.q, ub)]
    /\ UNCHANGED << scenario, nBands, m_nShiftXPixelsMod, m_nShiftYPixelsMod,
                    nRasterXSize, nRasterYSize, m_asCachedTilesDesc,
                    m_pabyCachedTiles, m_nTileInsertionCount, m_bInWriteTile,
                    m_nAge, m_hTempDB, tiles, partial_tiles, nLastId,
                    bInTransaction, nCommits, nDisableDirtyBlockFlush,
                    hostDirty, written, nWrites, nReads, bFlushed, nFaults,
                    gridded_tile_ancillary, nLastTileId,
                    overviewDS, reading >>

\* ReadTile() of the tile just encoded
DecodeTile16 ==
    /\ last.op = "ProcessInt16UInt16Tile"
    /\ last' = [last EXCEPT
                  !.op = "ReadTile16",
                  !.blk = last.data,
                  !.data = DecodeInt16UInt16Tile(scenario.q, last.data)]
    /\ UNCHANGED << scenario, nBands, m_nShiftXPixelsMod, m_nShiftYPixelsMod,
                    nRasterXSize, nRasterYSize, m_asCachedTilesDesc,
                    m_pabyCachedTiles, m_nTileInsertionCount, m_bInWriteTile,
                    m_nAge, m_hTempDB, tiles, partial_tiles, nLastId,
                    bInTransaction, nCommits, nDisableDirtyBlockFlush,
                    hostDirty, written, nWrites, nReads, bFlushed, nFaults,
                    gridded_tile_ancillary, nLastTileId,
                    overviewDS, reading >>

InitQuant == \E sc \in QuantScenarios : InitDataset(sc, 0)
NextQuant ==
    \/ \E ub \in {"wrap", "saturate"} : EncodeTile16(ub)
    \/ DecodeTile16
SpecQuant == InitQuant /\ [][NextQuant]_vars

\* the valid samples of the tile of the scenario
ValidSamples ==
    {i \in PixIdx : ~(scenario.q.bHasNoData
                      /\ scenario.q.px[i] = scenario.q.dfNoDataValue)}
\* one quantization step in sample units, rounded down, at least 1
QuantStep(e) ==
    LET st == e.dfTileScale.n \div (e.dfTileScale.d * scenario.q.sd)
    IN  IF st < 1 THEN 1 ELSE st

\* C16: for Int16 and UInt16 tiles, whatever the global offset and scale,
\* the no-data setting and the valid samples, ProcessInt16UInt16Tile() maps
\* every valid sample into [0, 65535] ([0, 65534] when 65535 stands for
\* no-data), its assertion dfVal >= 0.0 && dfVal < 65535.5 holds, and the
\* stored scale and offset decode each sample within one quantization step.
C16_QuantizationBounds ==
    last.op = "ReadTile16" =>
        /\ last.blk.bAsserted
        /\ \A i \in ValidSamples :
              /\ last.blk.pTempTileBuffer[i] >= 0
              /\ last.blk.pTempTileBuffer[i] <=
                     (IF scenario.q.bHasNoData
                         /\ scenario.q.usGPKGNull = 65535
                      THEN 65534 ELSE 65535)
              /\ last.data[i] - scenario.q.px[i] <= QuantStep(last.blk)
              /\ scenario.q.px[i] - last.data[i] <= QuantStep(last.blk)

(***************************************************************************)
(* Gridded coverage tiles (m_eTF == GPKG_TF_PNG_16BIT with Int16 data, or  *)
(* GPKG_TF_TIFF_32BIT_FLOAT with Float32 data): one band, whose tiles have *)
(* a row of gpkg_2d_gridded_tile_ancillary keyed by the id of the tile.    *)
(* The blob of a tile carries the id of its row of the primary table.      *)
(***************************************************************************)
\* GetTileId(nRow, nCol): 0 if the tile has no row
GetTileId(s, nRow, nCol) ==
    IF TileKey(s, nRow, nCol) \in DOMAIN s.tiles
    THEN s.tiles[TileKey(s, nRow, nCol)].id ELSE 0

\* DeleteFromGriddedTileAncillary(nTileId)
DeleteFromGriddedTileAncillary(s, nTileId) ==
    [s EXCEPT !.anc = {r \in @ : r.tpudt_id # nTileId}]

\* the id SQLite gives the row of an INSERT OR REPLACE that names no id: the
\* conflicting row is deleted and the new row gets a fresh rowid, past the
\* sequence (AUTOINCREMENT), or past the largest rowid of the table taken
\* before or after the deletion
NewTileId(s, policy, nRow, nCol) ==
    LET ids(keys) == {s.tiles[k].id : k \in keys} \cup {0}
        max(S) == CHOOSE m \in S : \A x \in S : x <= m
    IN  IF policy = "autoincrement" THEN s.tileSeq + 1
        ELSE IF policy = "rowid" THEN max(ids(DOMAIN s.tiles)) + 1
        ELSE max(ids((DOMAIN s.tiles) \ {TileKey(s, nRow, nCol)})) + 1

\* WriteTileInternal() of a gridded coverage tile held in cache slot 0 with
\* its band dirty: px are its samples
WriteGriddedTileInternal(s, eDT, policy, q0, nRow, nCol, px, ub) ==
    LET fNoDataValueOrZero == IF q0.bHasNoData THEN q0.dfNoDataValue ELSE 0
        row(e, nTileId) ==
            [tpudt_id |-> nTileId,
             scale |-> IF eDT = "Int16" THEN e.dfTileScale
                       ELSE [n |-> 1, d |-> 1],
             offset |-> IF eDT = "Int16" THEN e.dfTileOffset ELSE 0]
        ancillary(e, u) ==
            Only({ IF nTileId = 0
                   THEN [s |-> u, err |-> CE_Failure]
                   ELSE [s |-> [DeleteFromGriddedTileAncillary(u, nTileId)
                                   EXCEPT !.anc = @ \cup {row(e, nTileId)}],
                         err |-> CE_None]
                   : nTileId \in {GetTileId(u, nRow, nCol)} })
        store(e, newId) ==
            Only({ IF t.err # CE_None
                   THEN t
                   ELSE Only({ ancillary(e,
                                 IF u.err # CE_None THEN u.s
                                 ELSE [u.s EXCEPT !.tileSeq =
                                          IF newId > @ THEN newId ELSE @])
                               : u \in {UpsertTile(t.s, nRow, nCol,
                                          [nb |-> 1, id |-> newId,
                                           px |-> IF eDT = "Int16"
                                                  THEN e.pTempTileBuffer
                                                  ELSE px])} })
                   : t \in {BatchTransaction(s)} })
    IN  IF eDT = "Float32" /\ \A i \in DOMAIN px : px[i] = fNoDataValueOrZero
        THEN [s |-> DeleteTile(s, nRow, nCol).s, err |-> CE_None]
        ELSE Only({ IF eDT = "Int16" /\ e.nValidPixels = 0
                    THEN Only({ [s |-> IF nId > 0
                                       THEN DeleteFromGriddedTileAncillary(
                                                DeleteTile(s, nRow, nCol).s,
                                                nId)
                                       ELSE s,
                                 err |-> CE_None]
                                : nId \in {GetTileId(s, nRow, nCol)} })
                    ELSE Only({ store(e, newId)
                                : newId \in {NewTileId(s, policy, nRow,
                                                       nCol)} })
                    : e \in {ProcessInt16UInt16Tile([q0 EXCEPT !.px = px],
                                                    ub)} })

\* bound: number of gridded tiles written in a behaviour
MaxGriddedWrites == 4

\* an Int16 and a Float32 coverage of two tiles with no-data value 0 and
\* global offset -32768, under each way SQLite allots the ids
GriddedScenarios ==
    { [nb |-> 1, sx |-> 0, sy |-> 0, nx |-> 2, ny |-> 1, vs |-> {},
       va |-> {}, wr |-> MaxGriddedWrites, rd |-> 0, hd |-> 0, rw |-> TRUE,
       eDT |-> eDT, policy |-> policy,
       q |-> [bIsInt16 |-> TRUE, bHasNoData |-> TRUE, dfNoDataValue |-> 0,
              usGPKGNull |-> 65535, m_dfOffset |-> -32768, sd |-> 1,
              px |-> [i \in PixIdx |-> 0]]]
      : eDT \in {"Int16", "Float32"},
        policy \in {"autoincrement", "rowid", "rowid_after_delete"} }

\* the tiles written: all no-data, uniform, and with two values
GriddedTiles ==
    { [i \in PixIdx |-> IF i = 0 THEN ab[1] ELSE ab[2]]
      : ab \in {<< 0, 0 >>, << 3, 3 >>, << -5, 3 >>} }

\* IWriteBlock() of a block of the coverage followed by the WriteTile()
\* that stores its tile
WriteGriddedTile(blk, px, ub) ==
    /\ "eDT" \in DOMAIN scenario
    /\ nWrites < scenario.wr
    /\ LET s0 == St("none", "none", FALSE)
       IN  \E r \in {WriteGriddedTileInternal(s0, scenario.eDT,
                                              scenario.policy, scenario.q,
                                              blk[3] + m_nShiftYTiles,
                                              blk[2] + m_nShiftXTiles,
                                              px, ub)} :
               /\ Install(r.s)
               /\ last' = Outcome("WriteTileInternal", blk, s0, r.s, r.err,
                                  px)
    /\ nWrites' = nWrites + 1
    /\ UNCHANGED << written, nReads, bFlushed, nFaults, reading >>

InitGridded == \E sc \in GriddedScenarios : InitDataset(sc, 0)
NextGridded ==
    \E blk \in Blocks : \E px \in GriddedTiles :
        \E ub \in {"wrap", "saturate"} : WriteGriddedTile(blk, px, ub)
SpecGridded == InitGridded /\ [][NextGridded]_vars

\* C17: after any sequence of writes, rewrites and sparse deletions of
\* gridded coverage tiles, gpkg_2d_gridded_tile_ancillary holds exactly one
\* row for each tile of the primary table, keyed by the id of that tile, and
\* no row whose id is not the id of a tile of the primary table.
C17_OneAncillaryRowPerTile ==
    /\ \A k \in DOMAIN tiles :
           Cardinality({r \in gridded_tile_ancillary :
                           r.tpudt_id = tiles[k].id}) = 1
    /\ \A r \in gridded_tile_ancillary :
           \E k \in DOMAIN tiles : tiles[k].id = r.tpudt_id

\* the pixels of block blk that lie in one of the tiles of set T
PixelsInTiles(blk, T) ==
    {i \in PixIdx : << TileRowOfPixel(blk, i), TileColOfPixel(blk, i) >> \in T}

\* C18 as stated: when the primary table has no row for a tile, or its blob
\* cannot be decoded or decodes to other dimensions or band count, the tile
\* is delivered as an all-no-data tile and IReadBlock() returns success.
C18_MissingTileReadsNoData ==
    (last.op = "IReadBlock"
     /\ PixelsInTiles(last.blk,
                      last.ev.readMissing \cup last.ev.readCorrupt) # {})
        => /\ last.ret = CE_None
           /\ \A i \in PixelsInTiles(last.blk, last.ev.readMissing
                                               \cup last.ev.readCorrupt) :
                  last.data[i] = FillValue

\* C18 amended: the same for a tile that has no pending data, that is no
\* dirty band in cache slot 0 and no live record in partial_tiles, and
\* IReadBlock() returns success unless the SELECT of another tile of the
\* block cannot be prepared.
C18_MissingTileReadsNoDataUnlessPending ==
    (last.op = "IReadBlock"
     /\ PixelsInTiles(last.blk,
                      (last.ev.readMissing \cup last.ev.readCorrupt)
                          \ last.ev.readPending) # {})
        => /\ "readPrepare" \notin last.ev.readSQL => last.ret = CE_None
           /\ \A i \in PixelsInTiles(last.blk,
                         (last.ev.readMissing \cup last.ev.readCorrupt)
                             \ last.ev.readPending) :
                  last.data[i] = FillValue

\* a tile stored with data cannot be decoded and reads back as no-data
C18_Witness ==
    /\ last.op = "IReadBlock" /\ last.ret = CE_None
    /\ PixelsInTiles(last.blk, last.ev.readCorrupt) # {}
    /\ \A i \in PixIdx : last.data[i] = FillValue
    /\ \E T \in last.ev.readCorrupt :
           /\ PrimaryTile(T[1], T[2]) # NoBlob
           /\ \E i \in PixIdx : PrimaryTile(T[1], T[2]).px[0][i] # FillValue

\* C19: when the prepare or the step of the SELECT that fetches a tile from
\* the primary table or from partial_tiles fails (SQLITE_BUSY included),
\* the enclosing IReadBlock() returns CE_Failure.
C19_ReadSQLFailurePropagates ==
    (last.op = "IReadBlock" /\ last.ev.readSQL # {})
        => last.ret = CE_Failure

\* C20: when WriteTile() stores a tile of which only some bands are dirty,
\* the tile of the primary table afterwards holds the written pixels in
\* every dirty band and, in every other band, the pixels that were persisted
\* for the tile before (no-data if it had no row).
C20_PartialFlushKeepsOtherBands == last.ev.partialKept

(***************************************************************************)
(* Choice of the tile driver, of the band count and of the driver options  *)
(* in WriteTileInternal(), for the Byte transfer functions.  c describes   *)
(* the tile of cache slot 0: m_eTF, nb bands of which the bands of dirty   *)
(* are dirty, fill (of the alpha band if there is one, of the tile         *)
(* otherwise: "opaque" all 255, "empty" all 0, "mixed"), bEdge (the tile   *)
(* crosses the edge of the raster), bCT (m_poCT != nullptr) and the        *)
(* capabilities of the drivers.                                            *)
(***************************************************************************)
TileFormats == {"PNG_JPEG", "JPEG", "PNG", "PNG8", "WEBP"}

CodecAllDirty(c) == c.dirty = 1 .. c.nb
CodecAlphaBand(c) == IF c.nb = 2 THEN 2 ELSE IF c.nb = 4 THEN 4 ELSE 0
CodecPartialTile(c) == CodecAlphaBand(c) = 0 /\ c.bEdge

\* bAllOpaque: true unless every band is dirty and the alpha band is seen
\* not to be 255 everywhere
CodecAllOpaque(c) ==
    IF CodecAllDirty(c) /\ ~c.bCT /\ CodecAlphaBand(c) # 0
    THEN c.fill = "opaque"
    ELSE TRUE

\* the tile is dropped as fully transparent or all zero instead of encoded
CodecSparse(c) ==
    CodecAllDirty(c) /\ ~c.bCT /\ c.fill = "empty"

\* driver options that ask for a lossy JPEG / WEBP encoding, whatever the
\* dirty bands
LossyDriverOptions(c, pszDriverName) ==
    IF pszDriverName = "JPEG" \/ pszDriverName = "WEBP"
    THEN {"QUALITY"}
    ELSE {"ZLEVEL"}

\* papszDriverOptions
DriverOptions(c, pszDriverName) ==
    IF pszDriverName = "JPEG" \/ pszDriverName = "WEBP"
    THEN IF ~CodecAllDirty(c) /\ pszDriverName = "WEBP"
         THEN {"LOSSLESS"}
         ELSE {"QUALITY"}
    ELSE {"ZLEVEL"}

\* pszDriverName and bTileDriverSupports*
TileDriver(c) ==
    LET png == [pszDriverName |-> "PNG", b1 |-> TRUE, b2 |-> c.png2,
                b4 |-> TRUE, bCT |-> c.pngCT]
        jpeg == [pszDriverName |-> "JPEG", b1 |-> TRUE, b2 |-> FALSE,
                 b4 |-> FALSE, bCT |-> FALSE]
    IN  IF c.m_eTF = "PNG_JPEG" \/ (~CodecAllDirty(c) /\ c.m_eTF = "JPEG")
        THEN IF CodecPartialTile(c) \/ ~CodecAllDirty(c)
                \/ (c.nb = 2 /\ ~CodecAllOpaque(c))
                \/ (c.nb = 4 /\ ~CodecAllOpaque(c)) \/ c.bCT
             THEN png
             ELSE jpeg
        ELSE IF c.m_eTF = "PNG" \/ c.m_eTF = "PNG8" THEN png
        ELSE IF c.m_eTF = "JPEG" THEN jpeg
        ELSE [pszDriverName |-> "WEBP", b1 |-> FALSE, b2 |-> FALSE,
              b4 |-> c.webp4, bCT |-> FALSE]

\* nTileBands; bCTAlpha: the colour table has an entry with c4 == 0
TileBands(c, drv) ==
    LET bPartialTile == CodecPartialTile(c)
        bAllOpaque == CodecAllOpaque(c)
    IN  IF bPartialTile /\ c.nb = 1 /\ ~c.bCT /\ drv.b2 THEN 2
        ELSE IF bPartialTile /\ drv.b4 THEN 4
        ELSE IF CodecAllDirty(c) /\ c.m_eTF = "PNG8" /\ c.nb >= 3
                /\ bAllOpaque /\ ~bPartialTile
        THEN 1
        ELSE IF c.nb = 2
        THEN IF bAllOpaque
             THEN (IF drv.b2 THEN 1 ELSE 3)
             ELSE IF ~drv.b2 THEN (IF drv.b4 THEN 4 ELSE 3)
             ELSE c.nb
        ELSE IF c.nb = 4 /\ (bAllOpaque \/ ~drv.b4) THEN 3
        ELSE IF c.nb = 1 /\ c.bCT /\ ~drv.bCT
        THEN (IF drv.b4 /\ c.bCTAlpha THEN 4 ELSE 3)
        ELSE IF c.nb = 1 /\ ~c.bCT /\ ~drv.b1 THEN 3
        ELSE c.nb

\* what WriteTileInternal() hands to CreateCopy(): the driver, the band
\* count, whether the bands went through the median cut of PNG8, the driver
\* options, and whether CPLAssert(bAllDirty) failed
EncodeSettings(c) ==
    LET drv == TileDriver(c)
        nTileBands == TileBands(c, drv)
        bPNG8 == c.m_eTF = "PNG8" /\ nTileBands = 1 /\ c.nb >= 3
    IN  [ bEncoded |-> ~CodecSparse(c),
          pszDriverName |-> drv.pszDriverName,
          nTileBands |-> nTileBands,
          bMedianCut |-> bPNG8,
          papszDriverOptions |-> DriverOptions(c, drv.pszDriverName),
          bAsserted |-> bPNG8 => CodecAllDirty(c) ]

\* the tiles WriteTileInternal() goes on with: some band is dirty, a colour
\* table exists on 1-band datasets only
CodecInputs ==
    { c \in [ m_eTF : TileFormats, nb : 1 .. 4, dirty : SUBSET (1 .. 4),
              fill : {"opaque", "mixed", "empty"}, bEdge : BOOLEAN,
              bCT : BOOLEAN, bCTAlpha : BOOLEAN, png2 : BOOLEAN,
              pngCT : BOOLEAN, webp4 : BOOLEAN ] :
        /\ c.dirty # {} /\ c.dirty \subseteq 1 .. c.nb
        /\ c.bCT => c.nb = 1
        /\ c.bCTAlpha => c.bCT
        /\ c.pngCT => c.png2 }
CodecScenarios ==
    { [nb |-> c.nb, sx |-> 0, sy |-> 0, nx |-> 1, ny |-> 1, vs |-> {},
       va |-> {}, wr |-> 0, rd |-> 0, hd |-> 0, rw |-> FALSE, tf |-> c]
      : c \in CodecInputs }

\* WriteTileInternal() of the tile of the scenario, up to CreateCopy()
SelectTileCodec ==
    /\ "tf" \in DOMAIN scenario
    /\ last.op = "Init"
    /\ last' = [last EXCEPT !.op = "CreateCopy",
                            !.data = EncodeSettings(scenario.tf)]
    /\ UNCHANGED << scenario, nBands, m_nShiftXPixelsMod, m_nShiftYPixelsMod,
                    nRasterXSize, nRasterYSize, m_asCachedTilesDesc,
                    m_pabyCachedTiles, m_nTileInsertionCount, m_bInWriteTile,
                    m_nAge, m_hTempDB, tiles, partial_tiles, nLastId,
                    bInTransaction, nCommits, nDisableDirtyBlockFlush,
                    hostDirty, written, nWrites, nReads, bFlushed, nFaults,
                    gridded_tile_ancillary, nLastTileId,
                    overviewDS, reading >>

InitCodec == \E sc \in CodecScenarios : InitDataset(sc, 0)
NextCodec == SelectTileCodec
SpecCodec == InitCodec /\ [][NextCodec]_vars

\* the settings ask for an encoding that keeps every pixel value
LosslessSettings(e) ==
    /\ ~e.bMedianCut
    /\ \/ e.pszDriverName = "PNG"
       \/ e.pszDriverName = "WEBP" /\ "LOSSLESS" \in e.papszDriverOptions

\* C21: for every Byte transfer function a tile stored with only some of its
\* bands dirty is encoded with lossless settings (PNG, or WEBP with
\* LOSSLESS=YES; no JPEG, no lossy WEBP, no PNG8 median cut); the median cut
\* to one band is applied only when every band is dirty, the tile is fully
\* opaque and not an edge tile, so CPLAssert(bAllDirty) holds.
C21_PartialDirtyLossless ==
    (last.op = "CreateCopy" /\ last.data.bEncoded) =>
        LET c == scenario.tf
            e == last.data
        IN  /\ ~CodecAllDirty(c) => LosslessSettings(e)
            /\ e.bMedianCut =>
                  /\ CodecAllDirty(c)
                  /\ CodecAlphaBand(c) # 0 => c.fill = "opaque"
                  /\ ~(CodecAlphaBand(c) = 0 /\ c.bEdge)
            /\ e.bAsserted

C21_Witness ==
    /\ last.op = "CreateCopy"
    /\ scenario.tf.m_eTF = "WEBP"
    /\ scenario.tf.nb = 4
    /\ scenario.tf.dirty = {1, 4}
    /\ scenario.tf.fill = "mixed"
    /\ last.data.bEncoded
    /\ last.data.papszDriverOptions = {"LOSSLESS"}

\* C22: when a quadrant write (WriteShiftedTile) is the first write for a
\* band of a tile, the band stored in the overflow record holds, outside of
\* the rectangle written, the pixels of the persisted primary tile if there
\* is one, and the no-data fill only if there is none.
C22_FirstWriteSeededFromPrimary == last.ev.seedPrimary

\* C22, as the code has it: the band stored by the first quadrant write of a
\* band holds the no-data fill outside of the rectangle written, whether the
\* primary table has the tile or not.
C22_FirstWriteSeededWithNoData == last.ev.seedFill

C22_Witness ==
    /\ last.op = "IWriteBlock"
    /\ last.ret = CE_None
    /\ \E t \in last.ev.seeded : t[4]

C24_EvictsOldestHalf ==
    \A e \in last.ev.evictRuns :
        e[2] = 0 => (e[3] = e[1] \div 2 /\ e[4])

(***************************************************************************)
(* A dataset with one overview dataset.  The overview is a dataset object  *)
(* of its own (cache slots, cache memory, m_bInWriteTile, m_hTempDB) with  *)
(* its own m_nZoomLevel; through m_poParentDS it shares the main dataset's *)
(* partial_tiles database, m_nAge and m_nTileInsertionCount, and the two   *)
(* write to the same tile table.                                           *)
(***************************************************************************)
\* number of blocks the user may write in the two datasets together
MaxOverviewWrites == 3

\* the two datasets: shifted in x, 1 band, 2 x 1 blocks each
OverviewScenarios ==
    { [nb |-> 1, sx |-> BlockSize \div 2, sy |-> 0, nx |-> 2, ny |-> 1,
       vs |-> {1}, va |-> {}, wr |-> MaxOverviewWrites, rd |-> 0, hd |-> 1,
       rw |-> TRUE, onx |-> 2, ony |-> 1] }

OverviewBlocks ==
    {<< b, x, y >> : b \in 1 .. nBands, x \in 0 .. (scenario.onx - 1),
                     y \in 0 .. (scenario.ony - 1)}

\* the record of the overview dataset and of what it shares
StOverview(bTryFreeing) ==
    [ St("none", "none", bTryFreeing) EXCEPT
        !.desc = overviewDS.desc, !.mem = overviewDS.mem,
        !.inWT = overviewDS.inWT, !.tempDB = overviewDS.tempDB,
        !.rx = scenario.onx * nBlockXSize, !.ry = scenario.ony * nBlockYSize,
        !.host = << >>, !.zoom = m_nOverviewZoomLevel,
        !.bParent = TRUE, !.parentDB = m_hTempDB ]

InstallOverview(s) ==
    /\ overviewDS' = [ desc |-> s.desc, mem |-> s.mem, inWT |-> s.inWT,
                       tempDB |-> s.tempDB ]
    /\ m_hTempDB' = s.parentDB
    /\ m_nTileInsertionCount' = s.cnt
    /\ m_nAge' = s.age
    /\ tiles' = s.tiles
    /\ partial_tiles' = s.pt
    /\ nLastId' = s.lastId
    /\ gridded_tile_ancillary' = s.anc
    /\ nLastTileId' = s.tileSeq
    /\ bInTransaction' = s.txn
    /\ nCommits' = s.commits
    /\ nDisableDirtyBlockFlush' = s.noFlush
    /\ UNCHANGED << scenario, nBands, m_nShiftXPixelsMod,
                    m_nShiftYPixelsMod, nRasterXSize, nRasterYSize,
                    m_asCachedTilesDesc, m_pabyCachedTiles, m_bInWriteTile,
                    hostDirty, written, nReads, nFaults, reading >>

\* a block of the overview is written and flushed by the host cache:
\* IWriteBlock() of the overview band
OverviewWriteBlock(blk, v, bTryFreeing) ==
    /\ nWrites < scenario.wr
    /\ LET s0 == StOverview(bTryFreeing)
       IN  \E r \in {IWriteBlock(s0, blk[1], blk[2], blk[3],
                                 BlockData(v, blk[1] - 1, blk[2], blk[3]))} :
               /\ InstallOverview(r.s)
               /\ last' = Outcome("OverviewIWriteBlock", blk, s0, r.s, r.err,
                                  << >>)
    /\ nWrites' = nWrites + 1
    /\ bFlushed' = FALSE

\* FlushTiles() of the overview dataset
OverviewFlushCache ==
    /\ LET s0 == StOverview(FALSE)
       IN  \E r \in {FlushTiles(s0)} :
               /\ InstallOverview(r.s)
               /\ last' = Outcome("OverviewFlushTiles", << >>, s0, r.s, r.err,
                                  << >>)
    /\ UNCHANGED << nWrites, bFlushed >>

InitOverview ==
    \E sc \in OverviewScenarios : \E junk \in JunkFills : InitDataset(sc, junk)
NextOverview ==
    \/ \E blk \in Blocks : \E v \in Versions(blk) : UserWrite(blk, v)
    \/ \E blk \in Blocks : \E bTryFreeing \in BOOLEAN :
           FlushBlock(blk, "none", "none", bTryFreeing)
    \/ FlushCache("none", "none")
    \/ \E blk \in OverviewBlocks : \E v \in Versions(blk) :
       \E bTryFreeing \in BOOLEAN : OverviewWriteBlock(blk, v, bTryFreeing)
    \/ OverviewFlushCache
SpecOverview == InitOverview /\ [][NextOverview]_vars

\* C25: each quadrant write that stores a live record gives it an age above
\* every age given before, whatever the record and the zoom level (the
\* counter is above every age in the store, and the ages an operation gives
\* start at the counter and increase); all live records, of the dataset and
\* of its overview, have pairwise distinct ages.
C25_AgesStrictlyIncrease ==
    /\ \A r \in partial_tiles : r.age < m_nAge
    /\ \A i \in 1 .. Len(last.ev.aged) :
          /\ last.ev.aged[i] >= last.age0
          /\ \A j \in 1 .. (i - 1) : last.ev.aged[j] < last.ev.aged[i]
    /\ \A r1 \in partial_tiles : \A r2 \in partial_tiles :
          (r1.partial_flag # {} /\ r2.partial_flag # {} /\ r1.id # r2.id)
              => r1.age # r2.age

\* a block write of the overview has stored records while the dataset has
\* live records of its own
C25_Witness ==
    /\ last.op = "OverviewIWriteBlock"
    /\ Len(last.ev.aged) >= 2
    /\ \E r \in partial_tiles :
          r.zoom_level = m_nZoomLevel /\ r.partial_flag # {}
    /\ \E r \in partial_tiles :
          r.zoom_level = m_nOverviewZoomLevel /\ r.partial_flag # {}

\* C26: in every state of partial_tiles a record has partial_flag = 0
\* exactly when it is dead (negative zoom_level, age -1); the partial_flag
\* of a live record is the union of the quadrant bits written to its tile
\* since it became live (each quadrant write leaves the union of the flags
\* it found, none for a tile without live record, and of its own bits), it
\* is not 0 and it is not the full mask (1 << 4 * nBands) - 1.
C26_FlagsOfLiveAndDead ==
    /\ \A r \in partial_tiles :
          /\ (r.partial_flag = {}) <=> (r.zoom_level < 0)
          /\ (r.partial_flag = {}) <=> (r.age = -1)
          /\ r.partial_flag # FullFlags(nBands)
    /\ last.ev.flagsUnion

\* a quadrant write has added bits to a live record, and a dead record is
\* in the table
C26_Witness ==
    /\ last.op = "IWriteBlock"
    /\ \E t \in last.ev.flagged :
          /\ t[3] # {}
          /\ ~(t[4] \subseteq t[3])
          /\ \E r \in partial_tiles :
                /\ r.tile_row = t[1] /\ r.tile_column = t[2]
                /\ r.partial_flag = t[3] \cup t[4]
    /\ \E r \in partial_tiles : r.partial_flag = {}

\* the tile a record of partial_tiles is or was of: a dead record of zoom
\* level z is kept at zoom_level -1 - z
TileOfRecord(r) ==
    << IF r.zoom_level < 0 THEN -1 - r.zoom_level ELSE r.zoom_level,
       r.tile_row, r.tile_column >>

\* C27: after any sequence of quadrant writes, completions, evictions and
\* final flushes in the dataset and in its overview, partial_tiles never
\* holds two records, live or dead, of the same tile, and no statement that
\* marks a record dead or gives a dead record a new key has failed on the
\* UNIQUE constraint on (zoom_level, tile_column, tile_row).
C27_OneRecordPerTile ==
    /\ \A r1 \in partial_tiles : \A r2 \in partial_tiles :
          TileOfRecord(r1) = TileOfRecord(r2) => r1.id = r2.id
    /\ ~last.ev.conflict

\* a write of the overview has given a dead record of the dataset a key of
\* the overview, with a dead record left in the table
C27_Witness ==
    /\ last.op = "OverviewIWriteBlock"
    /\ \E t \in last.ev.rekeyed :
          t[1] = -1 - m_nZoomLevel /\ t[4] = m_nOverviewZoomLevel
    /\ \E r \in partial_tiles : r.zoom_level < 0

(***************************************************************************)
(* Block grid aligned on the tiles, 2 bands and 2 tiles, with one failing  *)
(* step or one re-entry.                                                   *)
(***************************************************************************)
\* number of blocks the user may write
MaxAlignedWrites == 4

AlignedScenarios ==
    { [nb |-> 2, sx |-> 0, sy |-> 0, nx |-> 2, ny |-> 1,
       vs |-> {1}, va |-> {2}, wr |-> MaxAlignedWrites, rd |-> 1, hd |-> 1,
       rw |-> TRUE] }
InitAligned == \E sc \in AlignedScenarios : InitDataset(sc, FillValue)
NextAligned == Step({"none", "commit"}, {"none"})
SpecAligned == InitAligned /\ [][NextAligned]_vars

\* C28: with the block grid aligned on the tiles only slot 0 holds dirty
\* data (at most one tile is pending), and when IWriteBlock() or
\* IReadBlock() gives slot 0 another tile, the tile it held with a dirty band
\* has been flushed (WriteTile() returned CE_None) and no dirty flag of it
\* is left on the slot, also when the flush fails.
C28_PendingTileFlushedBeforeRetarget ==
    (m_nShiftXPixelsMod = 0 /\ m_nShiftYPixelsMod = 0) =>
        /\ \A i \in 1 .. 3 : \A b \in BandSlots :
              ~m_asCachedTilesDesc[i].abBandDirty[b]
        /\ \A t \in last.ev.retargeted : t[5] = CE_None /\ ~t[6]

(***************************************************************************)
(* The cache slots in shifted geometry.                                    *)
(***************************************************************************)
\* C29: in shifted geometry the slots that designate a tile designate
\* pairwise distinct tiles, the slots with a buffer have pairwise distinct
\* buffers, slots 0 and 1 use buffers 0 and 1 only and slots 2 and 3
\* buffers 2 and 3 only, and each time IReadBlock() has taken the
\* left-to-right reuse path slot 1 designated the tile (rowMin, colMin) and
\* slot 0 had buffer 0 or 1 (the CPLAssert()s of that path).
C29_SlotsDistinctAndReuseAsserts ==
    (m_nShiftXPixelsMod # 0 \/ m_nShiftYPixelsMod # 0) =>
        /\ \A i, j \in 0 .. 3 :
              (i # j /\ m_asCachedTilesDesc[i].nRow >= 0
                     /\ m_asCachedTilesDesc[j].nRow >= 0)
              => << m_asCachedTilesDesc[i].nRow, m_asCachedTilesDesc[i].nCol >>
                 # << m_asCachedTilesDesc[j].nRow, m_asCachedTilesDesc[j].nCol >>
        /\ \A i, j \in 0 .. 3 :
              (i # j /\ m_asCachedTilesDesc[i].nIdxWithinTileData >= 0)
              => m_asCachedTilesDesc[i].nIdxWithinTileData
                 # m_asCachedTilesDesc[j].nIdxWithinTileData
        /\ \A i \in 0 .. 1 :
              m_asCachedTilesDesc[i].nIdxWithinTileData \in {-1, 0, 1}
        /\ \A i \in 2 .. 3 :
              m_asCachedTilesDesc[i].nIdxWithinTileData \in {-1, 2, 3}
        /\ \A t \in last.ev.reuse :
              t[3] = t[1] /\ t[4] = t[2] /\ t[5] \in {0, 1}

(***************************************************************************)
(* GDALGPKGMBTilesLikeRasterBand::IReadBlock() step by step, with the host *)
(* block cache that GetLockedBlockRef() works on: to make room for the     *)
(* block of another band it may write dirty blocks of the dataset, each    *)
(* through IWriteBlock(), which resets the cache slots in shifted          *)
(* geometry.  The call then starts again at the label "retry".             *)
(***************************************************************************)
\* retries a call is followed for
MaxRetries == 3

\* "Composite tile data into block data" for the band that is read
CompositeTile(s, pData, src, nRow, nCol, nRowMin, nColMin) ==
    LET nSrcXOffset == IF nCol = nColMin THEN s.sx ELSE 0
        nSrcXSize == IF nCol = nColMin THEN nBlockXSize - s.sx ELSE s.sx
        nDstXOffset == IF nCol = nColMin THEN 0 ELSE nBlockXSize - s.sx
        nSrcYOffset == IF nRow = nRowMin THEN s.sy ELSE 0
        nSrcYSize == IF nRow = nRowMin THEN nBlockYSize - s.sy ELSE s.sy
        nDstYOffset == IF nRow = nRowMin THEN 0 ELSE nBlockYSize - s.sy
    IN  IF bShifted(s)
        THEN CopyShifted(pData, src, nDstXOffset, nDstYOffset,
                         nSrcXOffset, nSrcYOffset, nSrcXSize, nSrcYSize)
        ELSE src

\* the orders in which the host cache may write dirty blocks while it
\* makes room for a block: none if dirty block flushing is disabled
FlushOrders(s, blkOther) ==
    LET D == (DOMAIN s.host) \ {blkOther}
    IN  IF s.noFlush > 0 \/ blkOther \in DOMAIN s.host
        THEN {<< >>}
        ELSE {<< >>} \cup {<< a >> : a \in D}
             \cup {q \in D \X D : q[1] # q[2]}

\* the host cache writes the dirty blocks of seq: each is marked clean and
\* handed to IWriteBlock(), whose error the host keeps for later
RECURSIVE HostFlush(_, _)
HostFlush(s, seq) ==
    IF seq = << >>
    THEN s
    ELSE LET blk == Head(seq)
             s0 == [s EXCEPT !.host =
                       [x \in (DOMAIN s.host) \ {blk} |-> s.host[x]]]
         IN  Only({ HostFlush(r.s, Tail(seq))
                    : r \in {IWriteBlock(s0, blk[1], blk[2], blk[3],
                                         BlockData(s.host[blk], blk[1] - 1,
                                                   blk[2], blk[3]))} })

\* a retry that does not look at the slots
AlwaysRetry(s, nRowMin, nColMin) == TRUE

\* "if ((m_nShiftXPixelsMod != 0 || m_nShiftYPixelsMod != 0) &&
\*      (m_asCachedTilesDesc[0].nRow != nRowMin || ...nCol != nColMin))"
RetryNeeded(s, nRowMin, nColMin) ==
    bShifted(s) /\ (s.desc[0].nRow # nRowMin \/ s.desc[0].nCol # nColMin)

\* the host cache calls IReadBlock() for a block that it does not hold
ReadEnter(blk) ==
    /\ reading.at = "idle"
    /\ blk \notin DOMAIN hostDirty
    /\ nReads < scenario.rd
    /\ reading' = [ at |-> "retry", blk |-> blk, todo |-> << >>,
                    iBand |-> 0, p |-> NullPtr, data |-> EmptyBand,
                    nRetries |-> 0,
                    nDirty0 |-> Cardinality(DOMAIN hostDirty) ]
    /\ nReads' = nReads + 1
    /\ LET s0 == St("none", "none", FALSE)
       IN  /\ Install(s0)
           /\ last' = Outcome("IReadBlock.enter", blk, s0, s0, CE_None, << >>)
    /\ UNCHANGED << written, nWrites, bFlushed, nFaults >>

\* "retry:" up to the loop over the tiles
ReadArrange ==
    /\ reading.at = "retry"
    /\ LET blk == reading.blk
           nRowMin == blk[3] + m_nShiftYTiles
           nColMin == blk[2] + m_nShiftXTiles
           s0 == St("none", "none", FALSE)
           s1 == IF bShifted(s0) THEN ArrangeSlots(s0, nRowMin, nColMin)
                 ELSE s0
       IN  /\ Install(s1)
           /\ last' = Outcome("IReadBlock.retry", blk, s0, s1, CE_None, << >>)
           /\ reading' = [reading EXCEPT
                             !.at = "tile",
                             !.todo = TilesOfBlock(s0, blk[2], blk[3])]
    /\ UNCHANGED << written, nWrites, nReads, bFlushed, nFaults >>

\* the head of the loop over the tiles: the call returns when no tile is
\* left or when WriteTile() or ReadTile() fails
ReadNextTile ==
    /\ reading.at = "tile"
    /\ LET blk == reading.blk
           s0 == St("none", "none", FALSE)
           return(s, ret) ==
               /\ Install(s)
               /\ last' = Outcome("IReadBlock", blk, s0, s, ret, reading.data)
               /\ reading' = [reading EXCEPT !.at = "idle"]
       IN  IF reading.todo = << >>
           THEN return(s0, CE_None)
           ELSE LET nRow == Head(reading.todo)[1]
                    nCol == Head(reading.todo)[2]
                    bSame == nRow = s0.desc[0].nRow /\ nCol = s0.desc[0].nCol
                             /\ s0.desc[0].nIdxWithinTileData = 0
                IN  \E w \in {IF ~bShifted(s0) /\ ~bSame
                              THEN WriteTile(s0)
                              ELSE [s |-> s0, err |-> CE_None]} :
                      IF w.err # CE_None
                      THEN return(w.s, CE_Failure)
                      ELSE \E r \in {ReadTile(w.s, nRow, nCol)} :
                             IF r.p = NullPtr
                             THEN return(r.s, CE_Failure)
                             ELSE /\ Install(r.s)
                                  /\ last' = Outcome("IReadBlock.tile", blk,
                                                     s0, r.s, CE_None, << >>)
                                  /\ reading' = [reading EXCEPT
                                                    !.at = "band",
                                                    !.iBand = 1, !.p = r.p]
    /\ UNCHANGED << written, nWrites, nReads, bFlushed, nFaults >>

\* one turn of the loop over the bands.  For another band than the one
\* read, GetLockedBlockRef() may write the dirty blocks of seq and may
\* return no block (bNull)
ReadBand(seq, bNull) ==
    /\ reading.at = "band"
    /\ LET blk == reading.blk
           nBand == blk[1]
           iBand == reading.iBand
           nRowMin == blk[3] + m_nShiftYTiles
           nColMin == blk[2] + m_nShiftXTiles
           nRow == Head(reading.todo)[1]
           nCol == Head(reading.todo)[2]
           blkOther == << iBand, blk[2], blk[3] >>
           s0 == St("none", "none", FALSE)
           next(data) ==
               IF iBand < s0.nb
               THEN [reading EXCEPT !.iBand = iBand + 1, !.data = data]
               ELSE [reading EXCEPT !.at = "tile", !.data = data,
                                    !.todo = Tail(reading.todo)]
       IN  IF iBand = nBand
           THEN /\ seq = << >> /\ ~bNull
                /\ Install(s0)
                /\ last' = Outcome("IReadBlock.band", blk, s0, s0, CE_None,
                                   << >>)
                /\ reading' = next(CompositeTile(s0, reading.data,
                                                 s0.mem[reading.p + nBand - 1],
                                                 nRow, nCol, nRowMin, nColMin))
           ELSE /\ seq \in FlushOrders(s0, blkOther)
                /\ \E s1 \in {HostFlush(s0, seq)} :
                     /\ Install(s1)
                     /\ last' = Outcome("IReadBlock.band", blk, s0, s1,
                                        CE_None, << >>)
                     /\ IF bNull \/ blkOther \in DOMAIN s1.host
                        THEN reading' = next(reading.data)
                        ELSE IF RetryNeeded(s1, nRowMin, nColMin)
                        THEN /\ reading.nRetries < MaxRetries
                             /\ reading' = [reading EXCEPT
                                               !.at = "retry",
                                               !.nRetries = @ + 1]
                        ELSE reading' = next(reading.data)
    /\ UNCHANGED << written, nWrites, nReads, bFlushed, nFaults >>

\* the running call takes its next step
ReadStep ==
    \/ ReadArrange
    \/ ReadNextTile
    \/ \E seq \in FlushOrders(St("none", "none", FALSE), << >>) :
       \E bNull \in BOOLEAN : ReadBand(seq, bNull)

\* rasters shifted in x, of three blocks with one band and of two blocks
\* with two bands
ReadScenarios ==
    { [nb |-> 1, sx |-> BlockSize \div 2, sy |-> 0, nx |-> 3, ny |-> 1,
       vs |-> {1}, va |-> {}, wr |-> 3, rd |-> 2, hd |-> MaxHostDirty,
       rw |-> FALSE],
      [nb |-> 2, sx |-> BlockSize \div 2, sy |-> 0, nx |-> 2, ny |-> 1,
       vs |-> {1}, va |-> {2}, wr |-> 3, rd |-> 1, hd |-> MaxHostDirty,
       rw |-> FALSE] }
InitRead == \E sc \in ReadScenarios : InitDataset(sc, FillValue)
\* the dataset is used by one thread: while a call runs, nothing else does;
\* the commit of FlushTiles() may fail
NextRead ==
    \/ reading.at = "idle"
       /\ \E blk \in Blocks : \E v \in Versions(blk) : UserWrite(blk, v)
    \/ reading.at = "idle"
       /\ \E blk \in Blocks : FlushBlock(blk, "none", "none", FALSE)
    \/ reading.at = "idle"
       /\ \E f \in {"none", "commit"} : FlushCache(f, "none")
    \/ \E blk \in Blocks : ReadEnter(blk)
    \/ ReadStep
SpecRead == InitRead /\ [][NextRead]_vars
\* IReadBlock() is sequential code: a call that has been entered keeps
\* running
ReadLiveScenarios == {sc \in ReadScenarios : sc.nb = 2}
InitReadLive == \E sc \in ReadLiveScenarios : InitDataset(sc, FillValue)
SpecReadLive == InitReadLive /\ [][NextRead]_vars /\ WF_vars(ReadStep)

\* C30: an IReadBlock() call in shifted geometry returns: it has gone back
\* to "retry" at most once for each dirty block that the host cache held
\* when the call was entered and has written since, and a call that has
\* been entered eventually returns.
C30_ReadReturns ==
    /\ [](reading.at # "idle" =>
            reading.nRetries
               <= reading.nDirty0 - Cardinality(DOMAIN hostDirty))
    /\ (reading.at # "idle") ~> (reading.at = "idle")

\* a call has returned CE_None after a retry
C30_Witness ==
    /\ last.op = "IReadBlock" /\ last.ret = CE_None
    /\ reading.at = "idle" /\ reading.nRetries >= 1
    /\ m_nShiftXPixelsMod # 0
====
